---- MODULE Spec2Model ----
(***************************************************************************)
(* Model of the weekly Google Meet link scheduler of bot.py: the persisted *)
(* schedule store (scheduled_meets.json), the in-memory store              *)
(* scheduled_meets, the conversation states user_states, the job queue of  *)
(* the Updater, and the recurrence calculation of create_job_for_schedule. *)
(*                                                                         *)
(* The specifications share the variables:                                 *)
(*   Spec      the bot as the dispatcher runs it: one handler or job       *)
(*             callback at a time, each an atomic action;                  *)
(*   CalcSpec  create_job_for_schedule's first-run computation on sampled  *)
(*             (day, hours, minutes, now);                                 *)
(*   ConcSpec  two handlers run step by step under schedule_lock.          *)
(*   TextSpec  the four handlers that read a day and a time, on message    *)
(*             texts read character by character;                          *)
(*   SendSpec  send_meet_link and send_instant_meet_link attempt by        *)
(*             attempt, on a clock that fires the weekly jobs.             *)
(*   LoadSpec  the operations that load the file, on a file that may be    *)
(*             cut short;                                                  *)
(*   MemberSpec  the supergroup when every message comes from a sender who *)
(*             is not an administrator;                                    *)
(*   ListSpec  /list on the stores a file may hold;                        *)
(*   RoundSpec save_schedules and load_schedules with the conversions of   *)
(*             json spelled out;                                           *)
(*   RaceSpec  the two handlers of ConcSpec beside the reload job;         *)
(*   MeetSpec  the link producer of google_meet.py on the environments it  *)
(*             may find;                                                   *)
(*   ReminderSpec  the reminder conversations, the reminder jobs and the   *)
(*             process start;                                              *)
(*   DeliverSpec  SendSpec with a link whose deletion cannot be scheduled; *)
(*   ProcSpec  two bot processes that share the schedule file;             *)
(*   DialogueSpec  the text messages of the schedule dialogues as          *)
(*             handle_text passes them on;                                 *)
(*   ReminderDialogueSpec  the reminder dialogues of one user beside the   *)
(*             schedule commands;                                          *)
(*   CredentialsSpec  get_credentials on the environments of MeetSpec.     *)
(*                                                                         *)
(* The job queue is a bag of jobs.  The order in which job_queue.jobs()    *)
(* returns them is the library's (by next run time), which the model does  *)
(* not track: a loop over jobs() that can stop early visits any sub-bag.   *)
(***************************************************************************)
EXTENDS Integers, Sequences, FiniteSets, Bags

VARIABLES
    schedule_file,    \* scheduled_meets.json: [exists, data: string key -> list]
    scheduled_meets,  \* the global dict: chat id -> list of entries
    user_states,      \* the global dict: (chat, user) -> conversation state
    job_queue,        \* the bag of jobs of updater.job_queue
    pc,               \* "boot" before main() has run, then "running"
    last,             \* the operation that ran last and the reply it sent
    rc,               \* CalcSpec: one call of create_job_for_schedule
    th,               \* ConcSpec: the two handler threads
    schedule_lock,    \* ConcSpec: the holder of schedule_lock, or {}
    sm,               \* SendSpec: the clock and the running send call
    gm,               \* MeetSpec: the environment and result of google_meet()
    reminder_file,    \* reminders.json: [exists, data: chat id -> list]
    reminders,        \* the global dict: chat id -> list of reminders
    temp_reminders,   \* the global dict: (chat, user) -> conversation data
    rl                \* ReminderSpec: what users were shown and deleted

\* The variables of the link producer and of the reminders.
rvars == <<gm, reminder_file, reminders, temp_reminders, rl>>

vars == <<schedule_file, scheduled_meets, user_states, job_queue, pc, last,
          rc, th, schedule_lock, sm, rvars>>

----------------------------------------------------------------------------
(* Values *)

\* Python's None, and an optional value: {} or a one-element set.
None == {}

Some(x) == {x}

\* The chats of the model: a supergroup with topics and a private chat.
ChatIds == {555, 777}

chat_type(chat_id) == IF chat_id = 555 THEN "supergroup" ELSE "private"

UserIds == {1001}

\* message_thread_id of a message: a topic id in the supergroup, else None.
ThreadsOf(chat_id) == IF chat_id = 555 THEN {None, Some(7)} ELSE {None}

DAYS_RU ==
    [ponedelnik |-> 0, vtornik |-> 1, sreda |-> 2, chetverg |-> 3,
     pyatnitsa |-> 4, subbota |-> 5, voskresenye |-> 6]

\* The texts users send: "<day> <HH>:<MM>".  parts is the number of words;
\* an hh or mm out of range stands for a time that fails the range check or
\* does not parse.
Text(parts, day_text, hh, mm) ==
    [parts |-> parts, day_text |-> day_text, hh |-> hh, mm |-> mm]

ValidTexts(chat_id) ==
    IF chat_id = 555
    THEN {Text(2, "sreda", 12, 46)}
    ELSE {Text(2, "sreda", 12, 46)}

InvalidTexts(chat_id) ==
    IF chat_id = 555
    THEN {Text(1, "sreda", 12, 46), Text(2, "someday", 12, 46),
          Text(2, "sreda", 24, 46), Text(2, "sreda", 12, 60)}
    ELSE {Text(2, "someday", 12, 46)}

Texts(chat_id) == ValidTexts(chat_id) \cup InvalidTexts(chat_id)

\* The chats in which the model's user goes through the /add and /delete
\* conversations; /addtime, /deletetime and /list are sent in every chat.
ConversationChats == {555}

\* member.status of get_chat_member, or "raise" when the call fails; the
\* handlers ask for it in groups only.
MemberStatuses(chat_id) ==
    IF chat_type(chat_id) \in {"group", "supergroup"}
    THEN {"administrator", "member", "raise"}
    ELSE {"administrator"}

----------------------------------------------------------------------------
(* Persistence store *)

json_key(chat_id) == IF chat_id = 555 THEN "555" ELSE "777"

int_of_key(k) == IF k = "555" THEN 555 ELSE 777

EmptyStore == [c \in {} |-> <<>>]

NoFile == [exists |-> FALSE, data |-> [k \in {} |-> <<>>]]

load_schedules(f) ==
    IF f.exists
    THEN [c \in {int_of_key(k) : k \in DOMAIN f.data} |-> f.data[json_key(c)]]
    ELSE EmptyStore

save_schedules(m) ==
    [exists |-> TRUE,
     data |-> [k \in {json_key(c) : c \in DOMAIN m} |-> m[int_of_key(k)]]]

----------------------------------------------------------------------------
(* Schedule entries *)

\* The entry an add handler builds; thread_id = None stands for an entry
\* without the 'thread_id' key (item.get('thread_id') is None).
schedule_entry(day, hours, minutes, thread_id) ==
    [day |-> day, hours |-> hours, minutes |-> minutes, thread_id |-> thread_id]

\* Variants of the duplicate test that read the wrong fields of the entry.
same_slot_wrong_field(item, day, hours, minutes) ==
    item.day = day /\ item.hours = hours /\ item.minutes = hours

same_slot_fields_swapped(item, day, hours, minutes) ==
    item.day = day /\ item.hours = minutes /\ item.minutes = hours

same_slot(item, day, hours, minutes) ==
    item.day = day /\ item.hours = hours /\ item.minutes = minutes

\* The duplicate check of the add handlers: day, hours and minutes only.
schedule_exists(items, day, hours, minutes) ==
    \E i \in 1..Len(items) : same_slot(items[i], day, hours, minutes)

\* The filter of process_schedule_delete: every entry of the slot goes,
\* whatever its thread.
new_schedules(items, day, hours, minutes) ==
    SelectSeq(items, LAMBDA it : ~same_slot(it, day, hours, minutes))

\* The filter of delete_schedule_direct: the thread has to match too.
new_schedules_direct(items, day, hours, minutes, thread_id) ==
    SelectSeq(items, LAMBDA it :
        ~(same_slot(it, day, hours, minutes) /\ it.thread_id = thread_id))

\* The dict after scheduled_meets[chat_id] = items.
store_set(m, chat_id, items) ==
    [c \in DOMAIN m \cup {chat_id} |-> IF c = chat_id THEN items ELSE m[c]]

----------------------------------------------------------------------------
(* Job queue *)

job_context(user_id, day, hours, minutes, thread_id) ==
    [user_id |-> user_id, day |-> day, hours |-> hours, minutes |-> minutes,
     thread_id |-> thread_id]

MeetJob(ctx) == [callback |-> "send_meet_link", context |-> Some(ctx)]

ReloadJob == [callback |-> "reload_schedules_job", context |-> None]

DeleteMessageJob == [callback |-> "delete_message", context |-> None]

\* job_queue.run_repeating(send_meet_link, ..., context=job_context)
create_job_for_schedule(q, user_id, day, hours, minutes, thread_id) ==
    q (+) SetToBag({MeetJob(job_context(user_id, day, hours, minutes, thread_id))})

NoneJobs(q) == {j \in DOMAIN q : j.context = None}

RestrictBag(q, S) == [j \in S |-> q[j]]

\* The conditions of the two removal loops on job.context, read with
\* job_context.get: the context of a reminder's job has no 'user_id'.
matches_slot(ctx, chat_id, day, hours, minutes) ==
    /\ "user_id" \in DOMAIN ctx
    /\ ctx.user_id = chat_id
    /\ ctx.day = day
    /\ ctx.hours = hours
    /\ ctx.minutes = minutes

matches_slot_thread(ctx, chat_id, day, hours, minutes, thread_id) ==
    /\ matches_slot(ctx, chat_id, day, hours, minutes)
    /\ ctx.thread_id = thread_id

\* The jobs on which the condition of a removal loop holds.
matching_jobs(q, chat_id, day, hours, minutes) ==
    RestrictBag(q, {j \in DOMAIN q :
        j.context # None /\ \A c \in j.context :
            matches_slot(c, chat_id, day, hours, minutes)})

matching_jobs_thread(q, chat_id, day, hours, minutes, thread_id) ==
    RestrictBag(q, {j \in DOMAIN q :
        j.context # None /\ \A c \in j.context :
            matches_slot_thread(c, chat_id, day, hours, minutes, thread_id)})

\* for job in job_queue.jobs(): if <job.context matches>: job.schedule_removal()
\* with M the matching jobs.  job.context.get raises AttributeError on a job
\* whose context is None: the loop then stops having visited the jobs that
\* jobs() returned before it.  The outcomes: the queue left, and whether the
\* loop raised.
remove_jobs_loop(q, M) ==
    IF NoneJobs(q) = {}
    THEN {[queue |-> q (-) M, raised |-> FALSE]}
    ELSE {[queue |-> q (-) V, raised |-> TRUE] : V \in SubBag(M)}

\* setup_schedules: every job of the queue is removed, then the file is
\* loaded and one job is created per entry of every chat.
RECURSIVE arm_entries(_, _, _)
arm_entries(q, user_id, items) ==
    IF items = <<>> THEN q
    ELSE arm_entries(
            create_job_for_schedule(q, user_id, Head(items).day, Head(items).hours,
                                    Head(items).minutes, Head(items).thread_id),
            user_id, Tail(items))

RECURSIVE arm_chats(_, _, _)
arm_chats(q, m, chats) ==
    IF chats = {} THEN q
    ELSE LET c == CHOOSE x \in chats : \A y \in chats : x <= y
         IN  arm_chats(arm_entries(q, c, m[c]), m, chats \ {c})

\* A setup_schedules that removes only the jobs without a context.
clear_jobs_weekly_kept(q) ==
    RestrictBag(q, {j \in DOMAIN q : j.context # None})

\* A setup_schedules that leaves the queued jobs in place.
clear_jobs_skipped(q) == q

\* for job in job_queue.jobs(): job.schedule_removal()
clear_jobs(q) == EmptyBag

setup_schedules(q, f) ==
    LET m == load_schedules(f)
    IN  [queue |-> arm_chats(clear_jobs(q), m, DOMAIN m), mem |-> m]

----------------------------------------------------------------------------
(* The locked blocks of the handlers: from the file and the queue as they  *)
(* are when schedule_lock is taken to the outcomes when it is released.    *)

Outcome(f, m, q, reply) == [file |-> f, mem |-> m, queue |-> q, reply |-> reply]

\* process_schedule_add, "with schedule_lock:".
add_block(f, q, chat_id, day, hours, minutes, thread_id) ==
    LET loaded == load_schedules(f)
        m0 == IF chat_id \in DOMAIN loaded THEN loaded
              ELSE store_set(loaded, chat_id, <<>>)
    IN  IF schedule_exists(m0[chat_id], day, hours, minutes)
        THEN Outcome(f, m0, q, "exists")
        ELSE LET m1 == store_set(m0, chat_id,
                           Append(m0[chat_id],
                                  schedule_entry(day, hours, minutes, thread_id)))
             IN  Outcome(save_schedules(m1), m1,
                         create_job_for_schedule(q, chat_id, day, hours, minutes,
                                                 thread_id),
                         "added")

\* add_schedule_direct, "with schedule_lock:": the same statements.
add_block_direct(f, q, chat_id, day, hours, minutes, thread_id) ==
    LET loaded == load_schedules(f)
        m0 == IF chat_id \in DOMAIN loaded THEN loaded
              ELSE store_set(loaded, chat_id, <<>>)
    IN  IF schedule_exists(m0[chat_id], day, hours, minutes)
        THEN Outcome(f, m0, q, "exists")
        ELSE LET m1 == store_set(m0, chat_id,
                           Append(m0[chat_id],
                                  schedule_entry(day, hours, minutes, thread_id)))
             IN  Outcome(save_schedules(m1), m1,
                         create_job_for_schedule(q, chat_id, day, hours, minutes,
                                                 thread_id),
                         "added")

\* process_schedule_delete, "with schedule_lock:" and the reply after it.
\* An exception of the job loop leaves the block after the save and is
\* answered by the handler's except clause.
delete_block(f, q, chat_id, day, hours, minutes) ==
    LET loaded == load_schedules(f)
    IN  IF chat_id \notin DOMAIN loaded
        THEN {Outcome(f, loaded, q, "not_found")}
        ELSE LET kept == new_schedules(loaded[chat_id], day, hours, minutes)
                 deleted == Len(kept) < Len(loaded[chat_id])
                 m1 == store_set(loaded, chat_id, kept)
             IN  { Outcome(save_schedules(m1), m1, o.queue,
                           IF o.raised THEN "error"
                           ELSE IF deleted THEN "deleted" ELSE "not_found")
                   : o \in remove_jobs_loop(q,
                            matching_jobs(q, chat_id, day, hours, minutes)) }

\* delete_schedule_direct, "with schedule_lock:" and the reply after it.
delete_block_direct(f, q, chat_id, day, hours, minutes, thread_id) ==
    LET loaded == load_schedules(f)
    IN  IF chat_id \notin DOMAIN loaded
        THEN {Outcome(f, loaded, q, "not_found")}
        ELSE LET kept == new_schedules_direct(loaded[chat_id], day, hours, minutes,
                                              thread_id)
                 deleted == Len(kept) < Len(loaded[chat_id])
                 m1 == store_set(loaded, chat_id, kept)
             IN  { Outcome(save_schedules(m1), m1, o.queue,
                           IF o.raised THEN "error"
                           ELSE IF deleted THEN "deleted" ELSE "not_found")
                   : o \in remove_jobs_loop(q,
                            matching_jobs_thread(q, chat_id, day, hours, minutes,
                                                 thread_id)) }

----------------------------------------------------------------------------
(* Requests *)

StateKeys == ChatIds \X UserIds

is_group(chat_id) == chat_type(chat_id) \in {"group", "supergroup"}

\* The admin check of the command handlers: "" when the request may go on.
admin_check(chat_id, status) ==
    IF ~is_group(chat_id) THEN ""
    ELSE IF status = "raise" THEN "admin_check_failed"
    ELSE IF status \notin {"creator", "administrator"} THEN "admins_only"
    ELSE ""

day_known(text) == text.day_text \in DOMAIN DAYS_RU

\* A range check that lets the minute 60 through.
time_valid_to_sixty(text) ==
    /\ 0 <= text.hh /\ text.hh < 24
    /\ 0 <= text.mm /\ text.mm <= 60

time_valid(text) ==
    /\ 0 <= text.hh /\ text.hh < 24
    /\ 0 <= text.mm /\ text.mm < 60

\* The messages of a chat.  A handler reads the text and the thread only
\* once the sender has passed the admin check, and the thread only once the
\* text is valid: of the messages that differ in a field that is not read,
\* which lead to the same state, the one with the first text and no thread
\* is sent.
FirstText(chat_id) == CHOOSE t \in ValidTexts(chat_id) : TRUE

TextRequests(chat_id) ==
    { r \in [text : Texts(chat_id), thread_id : ThreadsOf(chat_id)] :
        r.text \in InvalidTexts(chat_id) => r.thread_id = None }

DirectRequests(chat_id) ==
    { r \in [status : MemberStatuses(chat_id), text : Texts(chat_id),
             thread_id : ThreadsOf(chat_id)] :
        /\ r.text \in InvalidTexts(chat_id) => r.thread_id = None
        /\ admin_check(chat_id, r.status) # "" =>
              r.text = FirstText(chat_id) /\ r.thread_id = None }

\* The operation that ran last and the reply it sent.
Op(op, reply) == [op |-> op, reply |-> reply]

----------------------------------------------------------------------------
(* Bounds *)

\* Copies of one weekly job the queue may hold (an entry added again while
\* a job of it is still queued).
MaxCopies == 1

\* Message-deletion jobs pending at a time.
MaxPendingDeletes == 1

----------------------------------------------------------------------------
(* The bot, one handler or job callback at a time *)

calc_idle == [pc |-> "idle"]

conc_idle == [t \in {} |-> 0]

send_idle == [pc |-> "idle"]

meet_idle == [pc |-> "idle"]

NoReminderFile == [exists |-> FALSE, data |-> <<>>]

\* The link producer is not called and no reminder exists.
RemindersIdle ==
    /\ gm = meet_idle
    /\ reminder_file = NoReminderFile
    /\ reminders = <<>>
    /\ temp_reminders = <<>>
    /\ rl = <<>>

OtherSpecsIdle == UNCHANGED <<rc, th, schedule_lock, sm, rvars>>

NoDuplicates(items) ==
    \A i, j \in 1..Len(items) :
        (/\ items[i].day = items[j].day
         /\ items[i].hours = items[j].hours
         /\ items[i].minutes = items[j].minutes
         /\ items[i].thread_id = items[j].thread_id) => i = j

\* The files the process may find at start: none, or one written earlier in
\* which the supergroup holds the same slot in two topics.
InitStores ==
    { [c \in {555, 777} |->
          IF c = 555
          THEN <<schedule_entry(2, 12, 46, None), schedule_entry(2, 12, 46, Some(7))>>
          ELSE <<schedule_entry(2, 12, 46, None)>>] }

InitFiles == {NoFile} \cup { save_schedules(m) : m \in InitStores }

Init ==
    /\ schedule_file \in InitFiles
    /\ scheduled_meets = EmptyStore
    /\ user_states = [k \in StateKeys |-> "none"]
    /\ job_queue = EmptyBag
    /\ pc = "boot"
    /\ last = Op("init", "")
    /\ rc = calc_idle
    /\ th = conc_idle
    /\ schedule_lock = None
    /\ sm = send_idle
    /\ RemindersIdle

\* main(): load_schedules(), setup_schedules(), then the periodic reload job.
Main ==
    /\ pc = "boot"
    /\ LET s == setup_schedules(job_queue, schedule_file)
       IN  /\ scheduled_meets' = s.mem
           /\ job_queue' = s.queue (+) SetToBag({ReloadJob})
    /\ pc' = "running"
    /\ last' = Op("main", "")
    /\ UNCHANGED <<schedule_file, user_states>>
    /\ OtherSpecsIdle

\* reload_schedules_job: setup_schedules removes every job of the queue and
\* re-creates the weekly jobs only.  job_queue.jobs() of python-telegram-bot
\* 13 (the version start_polling(drop_pending_updates=...) needs) lists the
\* repeating job that is running, so the reload job removes itself, and the
\* pending message deletions with it.
ReloadSchedulesJob ==
    /\ pc = "running"
    /\ ReloadJob \in DOMAIN job_queue
    /\ LET s == setup_schedules(job_queue, schedule_file)
       IN  /\ scheduled_meets' = s.mem
           /\ job_queue' = s.queue
    /\ last' = Op("reload_schedules_job", "")
    /\ UNCHANGED <<schedule_file, user_states, pc>>
    /\ OtherSpecsIdle

\* add_schedule_command (/add): the state is stored before the admin check.
add_schedule_command(chat_id, user_id, status) ==
    LET denied == admin_check(chat_id, status)
    IN  /\ pc = "running"
        /\ user_states' = [user_states EXCEPT ![<<chat_id, user_id>>] = "ADD_SCHEDULE"]
        /\ last' = Op("add_schedule_command",
                      IF denied # "" THEN denied ELSE "prompt")
        /\ UNCHANGED <<schedule_file, scheduled_meets, job_queue, pc>>
        /\ OtherSpecsIdle

AddScheduleCommand ==
    \E chat_id \in ConversationChats, user_id \in UserIds :
    \E status \in MemberStatuses(chat_id) :
        add_schedule_command(chat_id, user_id, status)

\* delete_schedule_command (/delete).
delete_schedule_command(chat_id, user_id, status) ==
    LET denied == admin_check(chat_id, status)
        loaded == load_schedules(schedule_file)
        empty == chat_id \notin DOMAIN loaded \/ loaded[chat_id] = <<>>
    IN  /\ pc = "running"
        /\ user_states' = [user_states EXCEPT ![<<chat_id, user_id>>] = "DELETE_SCHEDULE"]
        /\ scheduled_meets' = IF denied # "" THEN scheduled_meets ELSE loaded
        /\ last' = Op("delete_schedule_command",
                      IF denied # "" THEN denied
                      ELSE IF empty THEN "no_schedules" ELSE "prompt")
        /\ UNCHANGED <<schedule_file, job_queue, pc>>
        /\ OtherSpecsIdle

DeleteScheduleCommand ==
    \E chat_id \in ConversationChats, user_id \in UserIds :
    \E status \in MemberStatuses(chat_id) :
        delete_schedule_command(chat_id, user_id, status)

\* The queue has room for one more copy of the weekly job of the request.
HasRoom(chat_id, text, thread_id) ==
    CopiesIn(MeetJob(job_context(chat_id, DAYS_RU[text.day_text], text.hh, text.mm,
                                 thread_id)), job_queue) < MaxCopies

StoreUnchanged == UNCHANGED <<schedule_file, scheduled_meets, job_queue>>

\* A handler end that leaves the state of the dialogue in place.
clear_state_kept(states, key) == states

\* if state_key in user_states: del user_states[state_key]
clear_state(states, key) == [states EXCEPT ![key] = "none"]

\* handle_text in state ADD_SCHEDULE: process_schedule_add on one message.
process_schedule_add(chat_id, user_id, thread_id, text) ==
    LET key == <<chat_id, user_id>>
        cleared == clear_state(user_states, key)
    IN  /\ pc = "running"
        /\ user_states[key] = "ADD_SCHEDULE"
        /\ IF text.parts < 2
           THEN \* text.split(' ', 1) does not unpack: the outer except
                /\ last' = Op("process_schedule_add", "error")
                /\ user_states' = cleared
                /\ StoreUnchanged
           ELSE IF ~day_known(text)
           THEN /\ last' = Op("process_schedule_add", "bad_day")
                /\ UNCHANGED user_states
                /\ StoreUnchanged
           ELSE IF ~time_valid(text)
           THEN /\ last' = Op("process_schedule_add", "bad_time")
                /\ UNCHANGED user_states
                /\ StoreUnchanged
           ELSE LET o == add_block(schedule_file, job_queue, chat_id,
                                   DAYS_RU[text.day_text], text.hh, text.mm, thread_id)
                IN  /\ o.reply = "added" => HasRoom(chat_id, text, thread_id)
                    /\ schedule_file' = o.file
                    /\ scheduled_meets' = o.mem
                    /\ job_queue' = o.queue
                    /\ user_states' = cleared
                    /\ last' = Op("process_schedule_add", o.reply)
        /\ UNCHANGED pc
        /\ OtherSpecsIdle

ProcessScheduleAdd ==
    \E chat_id \in ConversationChats, user_id \in UserIds :
    \E r \in TextRequests(chat_id) :
        process_schedule_add(chat_id, user_id, r.thread_id, r.text)

\* add_schedule_direct (/addtime day HH:MM) on one message.
add_schedule_direct(chat_id, status, thread_id, text) ==
    LET denied == admin_check(chat_id, status)
    IN  /\ pc = "running"
        /\ IF denied # ""
           THEN /\ last' = Op("add_schedule_direct", denied)
                /\ StoreUnchanged
           ELSE IF text.parts < 2
           THEN /\ last' = Op("add_schedule_direct", "usage")
                /\ StoreUnchanged
           ELSE IF ~day_known(text)
           THEN /\ last' = Op("add_schedule_direct", "bad_day")
                /\ StoreUnchanged
           ELSE IF ~time_valid(text)
           THEN /\ last' = Op("add_schedule_direct", "bad_time")
                /\ StoreUnchanged
           ELSE LET o == add_block_direct(schedule_file, job_queue, chat_id,
                             DAYS_RU[text.day_text], text.hh, text.mm, thread_id)
                IN  /\ o.reply = "added" => HasRoom(chat_id, text, thread_id)
                    /\ schedule_file' = o.file
                    /\ scheduled_meets' = o.mem
                    /\ job_queue' = o.queue
                    /\ last' = Op("add_schedule_direct", o.reply)
        /\ UNCHANGED <<user_states, pc>>
        /\ OtherSpecsIdle

AddScheduleDirect ==
    \E chat_id \in ChatIds :
    \E r \in DirectRequests(chat_id) :
        add_schedule_direct(chat_id, r.status, r.thread_id, r.text)

\* handle_text in state DELETE_SCHEDULE: process_schedule_delete on one
\* message; the handler does not read the message's thread.
process_schedule_delete(chat_id, user_id, text) ==
    LET key == <<chat_id, user_id>>
        cleared == clear_state(user_states, key)
    IN  /\ pc = "running"
        /\ user_states[key] = "DELETE_SCHEDULE"
        /\ IF text.parts # 2
           THEN /\ last' = Op("process_schedule_delete", "bad_format")
                /\ UNCHANGED user_states
                /\ StoreUnchanged
           ELSE IF ~day_known(text)
           THEN /\ last' = Op("process_schedule_delete", "bad_day")
                /\ UNCHANGED user_states
                /\ StoreUnchanged
           ELSE IF ~time_valid(text)
           THEN /\ last' = Op("process_schedule_delete", "bad_time")
                /\ UNCHANGED user_states
                /\ StoreUnchanged
           ELSE \E o \in delete_block(schedule_file, job_queue, chat_id,
                                       DAYS_RU[text.day_text], text.hh, text.mm) :
                    /\ schedule_file' = o.file
                    /\ scheduled_meets' = o.mem
                    /\ job_queue' = o.queue
                    /\ user_states' = cleared
                    /\ last' = Op("process_schedule_delete", o.reply)
        /\ UNCHANGED pc
        /\ OtherSpecsIdle

ProcessScheduleDelete ==
    \E chat_id \in ConversationChats, user_id \in UserIds :
    \E text \in Texts(chat_id) :
        process_schedule_delete(chat_id, user_id, text)

\* delete_schedule_direct (/deletetime day HH:MM) on one message.
delete_schedule_direct(chat_id, status, thread_id, text) ==
    LET denied == admin_check(chat_id, status)
    IN  /\ pc = "running"
        /\ IF denied # ""
           THEN /\ last' = Op("delete_schedule_direct", denied)
                /\ StoreUnchanged
           ELSE IF text.parts < 2
           THEN /\ last' = Op("delete_schedule_direct", "usage")
                /\ StoreUnchanged
           ELSE IF ~day_known(text)
           THEN /\ last' = Op("delete_schedule_direct", "bad_day")
                /\ StoreUnchanged
           ELSE IF ~time_valid(text)
           THEN /\ last' = Op("delete_schedule_direct", "bad_time")
                /\ StoreUnchanged
           ELSE \E o \in delete_block_direct(schedule_file, job_queue, chat_id,
                              DAYS_RU[text.day_text], text.hh, text.mm, thread_id) :
                    /\ schedule_file' = o.file
                    /\ scheduled_meets' = o.mem
                    /\ job_queue' = o.queue
                    /\ last' = Op("delete_schedule_direct", o.reply)
        /\ UNCHANGED <<user_states, pc>>
        /\ OtherSpecsIdle

DeleteScheduleDirect ==
    \E chat_id \in ChatIds :
    \E r \in DirectRequests(chat_id) :
        delete_schedule_direct(chat_id, r.status, r.thread_id, r.text)

\* The characters of the decimal digits.
Digits == <<"0", "1", "2", "3", "4", "5", "6", "7", "8", "9">>

DAYS_DISPLAY ==
    [d \in 0..6 |->
        CASE d = 0 -> "ponedelnik" [] d = 1 -> "vtornik" [] d = 2 -> "sreda"
          [] d = 3 -> "chetverg" [] d = 4 -> "pyatnitsa" [] d = 5 -> "subbota"
          [] d = 6 -> "voskresenye"]

\* f"{n:02d}" for 0 <= n < 100, character by character.
format_02d(n) == <<Digits[(n \div 10) + 1], Digits[(n % 10) + 1]>>

\* f"{day} {hours:02d}:{minutes:02d}": the day name, then the characters
\* of the time.
schedule_line(item) ==
    [day |-> DAYS_DISPLAY[item.day],
     time |-> format_02d(item.hours) \o <<":">> \o format_02d(item.minutes)]

\* A list that shows, from a thread, the entries of the other threads.
schedules_list_filter_inverted(items, thread_id) ==
    LET kept == SelectSeq(items, LAMBDA it :
                    ~(thread_id # None /\ it.thread_id = thread_id))
    IN  [i \in 1..Len(kept) |-> schedule_line(kept[i])]

\* A list that applies no thread filter.
schedules_list_unfiltered(items, thread_id) ==
    [i \in 1..Len(items) |-> schedule_line(items[i])]

\* schedules_list of list_schedules: from a thread, the entries of other
\* threads are skipped.
schedules_list(items, thread_id) ==
    LET kept == SelectSeq(items, LAMBDA it :
                    ~(thread_id # None /\ it.thread_id # thread_id))
    IN  [i \in 1..Len(kept) |-> schedule_line(kept[i])]

\* list_schedules (/list): loads the store and replies.
list_schedules(chat_id, thread_id) ==
    LET loaded == load_schedules(schedule_file)
        empty == chat_id \notin DOMAIN loaded \/ loaded[chat_id] = <<>>
        shown == IF empty THEN <<>>
                 ELSE schedules_list(loaded[chat_id], thread_id)
    IN  /\ pc = "running"
        /\ scheduled_meets' = loaded
        /\ last' = Op("list_schedules",
                      IF empty THEN "no_schedules"
                      ELSE IF shown = <<>> /\ thread_id # None THEN "thread_empty"
                      ELSE "listed")
        /\ UNCHANGED <<schedule_file, user_states, job_queue, pc>>
        /\ OtherSpecsIdle

ListSchedules ==
    \E chat_id \in ChatIds : \E thread_id \in ThreadsOf(chat_id) :
        list_schedules(chat_id, thread_id)

\* send_meet_link: a weekly job fires.  An attempt that succeeds also queues
\* the deletion of the message it sent (a job whose context is None); when
\* every attempt fails the error message is sent.  The repeating job stays
\* in the queue.
send_meet_link(job, sent) ==
    /\ pc = "running"
    /\ job \in DOMAIN job_queue
    /\ job.callback = "send_meet_link"
    /\ IF sent
       THEN /\ CopiesIn(DeleteMessageJob, job_queue) < MaxPendingDeletes
            /\ job_queue' = job_queue (+) SetToBag({DeleteMessageJob})
            /\ last' = Op("send_meet_link", "link")
       ELSE /\ job_queue' = job_queue
            /\ last' = Op("send_meet_link", "error")
    /\ UNCHANGED <<schedule_file, scheduled_meets, user_states, pc>>
    /\ OtherSpecsIdle

SendMeetLink ==
    \E job \in DOMAIN job_queue, sent \in BOOLEAN : send_meet_link(job, sent)

\* The run_once job of send_meet_link fires: the message is deleted and the
\* job leaves the queue.
DeleteMessage ==
    /\ pc = "running"
    /\ DeleteMessageJob \in DOMAIN job_queue
    /\ job_queue' = job_queue (-) SetToBag({DeleteMessageJob})
    /\ last' = Op("delete_message", "")
    /\ UNCHANGED <<schedule_file, scheduled_meets, user_states, pc>>
    /\ OtherSpecsIdle

Next ==
    \/ Main
    \/ ReloadSchedulesJob
    \/ AddScheduleCommand
    \/ DeleteScheduleCommand
    \/ ProcessScheduleAdd
    \/ AddScheduleDirect
    \/ ProcessScheduleDelete
    \/ DeleteScheduleDirect
    \/ ListSchedules
    \/ SendMeetLink
    \/ DeleteMessage

Spec == Init /\ [][Next]_vars

----------------------------------------------------------------------------
(* Properties of the store and the job queue *)

\* The entries the model's requests name in a chat.
Entries(chat_id) ==
    { schedule_entry(DAYS_RU[t.day_text], t.hh, t.mm, thread_id) :
        t \in ValidTexts(chat_id), thread_id \in ThreadsOf(chat_id) }

\* The list the file holds for a chat (empty when the chat is not in it).
FileList(f, chat_id) ==
    LET m == load_schedules(f)
    IN  IF chat_id \in DOMAIN m THEN m[chat_id] ELSE <<>>

Copies(items, e) == Cardinality({i \in 1..Len(items) : items[i] = e})

Holds(f, chat_id, e) == Copies(FileList(f, chat_id), e) > 0

EntryJob(chat_id, e) ==
    MeetJob(job_context(chat_id, e.day, e.hours, e.minutes, e.thread_id))

\* The weekly jobs armed in a queue for an entry of a chat.
Armed(q, chat_id, e) == CopiesIn(EntryJob(chat_id, e), q)

AddOps == {"process_schedule_add", "add_schedule_direct"}

DeleteOps == {"process_schedule_delete", "delete_schedule_direct"}

\* A step in which an administrator's valid add request for entry e of
\* chat_id is handled, by the conversation or by /addtime.
AddStep(chat_id, e) ==
    \E t \in ValidTexts(chat_id) :
        /\ e = schedule_entry(DAYS_RU[t.day_text], t.hh, t.mm, e.thread_id)
        /\ \/ \E user_id \in UserIds :
                process_schedule_add(chat_id, user_id, e.thread_id, t)
           \/ add_schedule_direct(chat_id, "administrator", e.thread_id, t)

\* C1: once a delete request has removed an entry from the persisted store,
\* no weekly job for that chat and (day, hours, minutes, thread_id) is left
\* in the job queue, whatever else the queue holds.
C1_DeletedEntryIsDisarmed ==
    [][\A chat_id \in ChatIds : \A e \in Entries(chat_id) :
          (/\ last'.op \in DeleteOps
           /\ Holds(schedule_file, chat_id, e)
           /\ ~Holds(schedule_file', chat_id, e))
          => Armed(job_queue', chat_id, e) = 0]_vars

\* C2: a valid add request is answered "already exists" exactly when the
\* chat holds an entry with the same day, hours, minutes and thread_id;
\* otherwise the entry is appended, saved, and one weekly job is created.
C2_DuplicateIffSameEntry ==
    [][\A chat_id \in ChatIds : \A e \in Entries(chat_id) :
          (last'.op \in AddOps /\ AddStep(chat_id, e)) =>
              IF Holds(schedule_file, chat_id, e)
              THEN last'.reply = "exists"
              ELSE /\ last'.reply = "added"
                   /\ FileList(schedule_file', chat_id) =
                          Append(FileList(schedule_file, chat_id), e)
                   /\ job_queue' = job_queue (+) SetToBag({EntryJob(chat_id, e)})]_vars

C4_EntriesAreUnique ==
    /\ \A chat_id \in ChatIds : NoDuplicates(FileList(schedule_file, chat_id))
    /\ \A chat_id \in DOMAIN scheduled_meets : NoDuplicates(scheduled_meets[chat_id])

\* An entry was added to the private chat while the supergroup holds the
\* slot in two topics.
C4_Witness ==
    /\ last.op \in AddOps /\ last.reply = "added"
    /\ Len(FileList(schedule_file, 555)) = 2
    /\ Len(FileList(schedule_file, 777)) = 1

\* The weekly jobs of a queue.
WeeklyJobs(q) == RestrictBag(q, {j \in DOMAIN q : j.callback = "send_meet_link"})

\* One weekly job per (chat, entry) of a file.
JobsOfFile(f) ==
    LET m == load_schedules(f)
        at == UNION { {<<c, i>> : i \in 1..Len(m[c])} : c \in DOMAIN m }
    IN  [j \in {EntryJob(p[1], m[p[1]][p[2]]) : p \in at} |->
            Cardinality({p \in at : EntryJob(p[1], m[p[1]][p[2]]) = j})]

ReloadOps == {"main", "reload_schedules_job"}

\* C8: when setup_schedules has completed, at start or from the periodic
\* job, the weekly jobs of the queue are exactly one per entry of every chat
\* of the persisted store.
C8_ReloadArmsOnePerEntry ==
    last.op \in ReloadOps => WeeklyJobs(job_queue) = JobsOfFile(schedule_file)

\* The periodic reload ran after the private chat's entry had been added to
\* an empty store.
C8_Witness ==
    /\ last.op = "reload_schedules_job"
    /\ FileList(schedule_file, 555) = <<>>
    /\ FileList(schedule_file, 777) = <<schedule_entry(2, 12, 46, None)>>
    /\ WeeklyJobs(job_queue) = SetToBag({EntryJob(777, schedule_entry(2, 12, 46, None))})

\* C9: after every execution of the periodic reload job, the reload job is
\* still armed in the job queue.
C9_ReloadJobStaysArmed ==
    last.op = "reload_schedules_job" => CopiesIn(ReloadJob, job_queue) >= 1

----------------------------------------------------------------------------
(* Recurrence calculation: create_job_for_schedule's first run time *)

\* An aware datetime: wall is the local clock reading in seconds counted
\* from Monday 00:00:00 of the week of the call, utcoffset the zone's offset
\* in seconds.  Aware datetimes are compared by the instant they denote.
utcoffset(tz) == IF tz = "Europe/Moscow" THEN 3 * 3600 ELSE 0

DateTime(wall, tz) == [wall |-> wall, utcoffset |-> utcoffset(tz)]

instant(dt) == dt.wall - dt.utcoffset

days(n) == n * 86400

\* datetime.weekday(): Monday is 0.
weekday(dt) == (dt.wall \div 86400) % 7

\* dt.replace(hour=hours, minute=minutes, second=0, microsecond=0)
replace_time(dt, hours, minutes) ==
    [dt EXCEPT !.wall = (dt.wall \div 86400) * 86400 + hours * 3600 + minutes * 60]

\* dt + datetime.timedelta(seconds=secs)
plus(dt, secs) == [dt EXCEPT !.wall = dt.wall + secs]

\* dt.astimezone(pytz.UTC): the same instant read on the UTC clock.
astimezone_utc(dt) == [wall |-> dt.wall - dt.utcoffset, utcoffset |-> 0]

\* The days until the scheduled day without the same-day test.
days_ahead_same_day_kept(day, hours, minutes, now) ==
    (day - weekday(now)) % 7

\* Days until the next scheduled day; a slot of today that has passed goes
\* to next week.
days_ahead(day, hours, minutes, now) ==
    LET ahead == (day - weekday(now)) % 7
    IN  IF ahead = 0 /\ instant(now) > instant(replace_time(now, hours, minutes))
        THEN 7
        ELSE ahead

\* The value passed as first= to run_repeating.
first_run_time(day, hours, minutes, now) ==
    LET target_date == plus(now, days(days_ahead(day, hours, minutes, now)))
        target_time == plus(replace_time(target_date, hours, minutes), -60)
    IN  astimezone_utc(target_time)

\* The sampled calls: every weekday, hours and minutes at the ends and in
\* the middle of their ranges, now at, just before and just after a slot.
CalcDays == 0..6

CalcHours == {0, 12, 23}

CalcMinutes == {0, 46, 59}

NowHours == {0, 9, 12, 23}

NowMinutes == {0, 45, 46, 59}

NowSeconds == {0, 30}

CalcCalls ==
    { [pc |-> "call", day |-> d, hours |-> h, minutes |-> m,
       now |-> DateTime(days(nd) + nh * 3600 + nm * 60 + ns, "Europe/Moscow"),
       first |-> None] :
        d \in CalcDays, h \in CalcHours, m \in CalcMinutes,
        nd \in CalcDays, nh \in NowHours, nm \in NowMinutes, ns \in NowSeconds }

CalcInit ==
    /\ schedule_file = NoFile
    /\ scheduled_meets = EmptyStore
    /\ user_states = [k \in StateKeys |-> "none"]
    /\ job_queue = EmptyBag
    /\ pc = "running"
    /\ last = Op("init", "")
    /\ rc \in CalcCalls
    /\ th = conc_idle
    /\ schedule_lock = None
    /\ sm = send_idle
    /\ RemindersIdle

\* One call create_job_for_schedule(bot, job_queue, 555, day, hours, minutes)
\* at the instant rc.now.
CreateJobForSchedule ==
    /\ rc.pc = "call"
    /\ rc' = [rc EXCEPT !.pc = "armed",
                        !.first = Some(first_run_time(rc.day, rc.hours, rc.minutes, rc.now))]
    /\ job_queue' = create_job_for_schedule(job_queue, 555, rc.day, rc.hours,
                                            rc.minutes, None)
    /\ last' = Op("create_job_for_schedule", "")
    /\ UNCHANGED <<schedule_file, scheduled_meets, user_states, pc, th,
                   schedule_lock, sm, rvars>>

CalcNext == CreateJobForSchedule

CalcSpec == CalcInit /\ [][CalcNext]_vars

\* The earliest instant at or after now at which the Moscow clock reads the
\* weekday `day` at hours:minutes:00, as a Moscow datetime.
next_slot(day, hours, minutes, now) ==
    LET slot == days(day) + hours * 3600 + minutes * 60
    IN  [now EXCEPT !.wall = now.wall + ((slot - now.wall) % days(7))]

AtSlot(call) ==
    call.now = next_slot(call.day, call.hours, call.minutes, call.now)

\* C5: the first run time handed to the job queue is strictly later than
\* now and at most 7 days after now.
C5_FirstRunInFuture ==
    rc.pc = "armed" =>
        \A first \in rc.first :
            /\ instant(first) > instant(rc.now)
            /\ instant(first) <= instant(rc.now) + days(7)

\* C6: when now is exactly at the target slot, the first run time is
\* now + 7 days.
C6_AtSlotGoesToNextWeek ==
    (rc.pc = "armed" /\ AtSlot(rc)) =>
        \A first \in rc.first : instant(first) = instant(rc.now) + days(7)

\* C7 as stated: the first run time is the next instant at which the Moscow
\* clock reads the entry's weekday, hours and minutes (the slot at or after
\* now, or the one a week later when now is at the slot), in UTC.
C7_FirstRunIsNextSlot ==
    rc.pc = "armed" =>
        LET slot == next_slot(rc.day, rc.hours, rc.minutes, rc.now)
        IN  \A first \in rc.first :
                \/ first = astimezone_utc(slot)
                \/ AtSlot(rc) /\ first = astimezone_utc(plus(slot, days(7)))

\* C7: the first run time is one minute before the earliest instant at or
\* after now at which the Moscow clock reads the entry's weekday, hours and
\* minutes, converted to UTC.
C7_FirstRunMinuteBeforeSlot ==
    rc.pc = "armed" =>
        LET slot == next_slot(rc.day, rc.hours, rc.minutes, rc.now)
        IN  rc.first = Some([wall |-> slot.wall - 60 - 3 * 3600, utcoffset |-> 0])

\* Entry Wednesday 12:46, now Monday 09:00 Moscow: the job is armed for the
\* coming Wednesday 12:45 Moscow, 09:45 UTC.
C7_Witness ==
    /\ rc.pc = "armed"
    /\ rc.day = 2 /\ rc.hours = 12 /\ rc.minutes = 46
    /\ rc.now = [wall |-> 9 * 3600, utcoffset |-> 3 * 3600]
    /\ rc.first = Some([wall |-> days(2) + 9 * 3600 + 45 * 60, utcoffset |-> 0])

----------------------------------------------------------------------------
(* The reply of a delete and what the delete did *)

\* The step took an entry out of the file.
RemovesAnEntry ==
    \E c \in ChatIds :
        Len(FileList(schedule_file', c)) < Len(FileList(schedule_file, c))

\* C26: a delete request is answered with the confirmation exactly when it
\* took an entry out of the file, and when it is answered with "not found"
\* or with the generic error message the file is as it was.
C26_DeleteReplyAgreesWithEffect ==
    [][last'.op \in DeleteOps =>
          /\ last'.reply = "deleted" <=> RemovesAnEntry
          /\ last'.reply \in {"not_found", "error"} =>
                schedule_file' = schedule_file]_vars

----------------------------------------------------------------------------
(* Two handlers run step by step: the locked blocks of process_schedule_add *)
(* and process_schedule_delete, one statement group at a time.              *)

Threads == {1, 2}

\* The requests the two handlers serve, parsed: [op, chat_id, day, hours,
\* minutes, thread_id].
ConcRequests ==
    { [op |-> "add", chat_id |-> 555, day |-> 2, hours |-> 12, minutes |-> 46,
       thread_id |-> None],
      [op |-> "add", chat_id |-> 555, day |-> 2, hours |-> 12, minutes |-> 46,
       thread_id |-> Some(7)],
      [op |-> "add", chat_id |-> 777, day |-> 2, hours |-> 12, minutes |-> 46,
       thread_id |-> None],
      [op |-> "delete", chat_id |-> 555, day |-> 2, hours |-> 12, minutes |-> 46,
       thread_id |-> None],
      [op |-> "delete", chat_id |-> 777, day |-> 2, hours |-> 12, minutes |-> 46,
       thread_id |-> None] }

\* A handler thread: its request, where it is, what it will reply, the
\* `deleted` flag of process_schedule_delete, and the file as it was when the
\* two requests arrived.
Thread(req, f) ==
    [req |-> req, pc |-> "start", reply |-> "", deleted |-> FALSE, file0 |-> f]

\* A block entered whoever holds the lock.
lock_free_ignored(l) == TRUE

\* threading.Lock: "with schedule_lock:" enters when nobody holds the lock.
lock_free(l) == l = None

ConcInit ==
    /\ schedule_file \in InitFiles
    /\ scheduled_meets = load_schedules(schedule_file)
    /\ user_states = [k \in StateKeys |-> "none"]
    /\ \E reload_pending \in BOOLEAN :
          job_queue = setup_schedules(EmptyBag, schedule_file).queue
                      (+) (IF reload_pending THEN SetToBag({ReloadJob}) ELSE EmptyBag)
    /\ pc = "running"
    /\ last = Op("init", "")
    /\ rc = calc_idle
    /\ th \in { [t \in Threads |-> Thread(r[t], schedule_file)] :
                  r \in [Threads -> ConcRequests] }
    /\ schedule_lock = None
    /\ sm = send_idle
    /\ RemindersIdle

ConcUnchanged == UNCHANGED <<user_states, pc, last, rc, sm, rvars>>

\* with schedule_lock: (entry)
Acquire(t) ==
    /\ th[t].pc = "start"
    /\ lock_free(schedule_lock)
    /\ schedule_lock' = Some(t)
    /\ th' = [th EXCEPT ![t].pc = "load"]
    /\ UNCHANGED <<schedule_file, scheduled_meets, job_queue>>
    /\ ConcUnchanged

\* load_schedules()
Load(t) ==
    /\ th[t].pc = "load"
    /\ scheduled_meets' = load_schedules(schedule_file)
    /\ th' = [th EXCEPT ![t].pc = IF th[t].req.op = "add" THEN "check" ELSE "filter"]
    /\ UNCHANGED <<schedule_file, job_queue, schedule_lock>>
    /\ ConcUnchanged

\* process_schedule_add: the chat's list is created when missing, then the
\* duplicate check.
Check(t) ==
    LET r == th[t].req
        m0 == IF r.chat_id \in DOMAIN scheduled_meets THEN scheduled_meets
              ELSE store_set(scheduled_meets, r.chat_id, <<>>)
    IN  /\ th[t].pc = "check"
        /\ scheduled_meets' = m0
        /\ th' = IF schedule_exists(m0[r.chat_id], r.day, r.hours, r.minutes)
                 THEN [th EXCEPT ![t].pc = "release", ![t].reply = "exists"]
                 ELSE [th EXCEPT ![t].pc = "append"]
        /\ UNCHANGED <<schedule_file, job_queue, schedule_lock>>
        /\ ConcUnchanged

\* process_schedule_add: scheduled_meets[chat_id].append(schedule_entry); a
\* KeyError leaves the block for the handler's except clause.
AppendEntry(t) ==
    LET r == th[t].req
    IN  /\ th[t].pc = "append"
        /\ IF r.chat_id \in DOMAIN scheduled_meets
           THEN /\ scheduled_meets' =
                       store_set(scheduled_meets, r.chat_id,
                                 Append(scheduled_meets[r.chat_id],
                                        schedule_entry(r.day, r.hours, r.minutes,
                                                       r.thread_id)))
                /\ th' = [th EXCEPT ![t].pc = "save"]
           ELSE /\ UNCHANGED scheduled_meets
                /\ th' = [th EXCEPT ![t].pc = "release", ![t].reply = "error"]
        /\ UNCHANGED <<schedule_file, job_queue, schedule_lock>>
        /\ ConcUnchanged

\* process_schedule_delete: the filter loop and
\* scheduled_meets[chat_id] = new_schedules.
Filter(t) ==
    LET r == th[t].req
    IN  /\ th[t].pc = "filter"
        /\ IF r.chat_id \in DOMAIN scheduled_meets
           THEN LET kept == new_schedules(scheduled_meets[r.chat_id], r.day, r.hours,
                                          r.minutes)
                IN  /\ scheduled_meets' = store_set(scheduled_meets, r.chat_id, kept)
                    /\ th' = [th EXCEPT ![t].pc = "save",
                                        ![t].deleted =
                                            Len(kept) < Len(scheduled_meets[r.chat_id])]
           ELSE /\ UNCHANGED scheduled_meets
                /\ th' = [th EXCEPT ![t].pc = "release", ![t].reply = "not_found"]
        /\ UNCHANGED <<schedule_file, job_queue, schedule_lock>>
        /\ ConcUnchanged

\* save_schedules(): the global dict as it is now goes to the file.
Save(t) ==
    /\ th[t].pc = "save"
    /\ schedule_file' = save_schedules(scheduled_meets)
    /\ th' = [th EXCEPT ![t].pc = IF th[t].req.op = "add" THEN "arm" ELSE "cancel"]
    /\ UNCHANGED <<scheduled_meets, job_queue, schedule_lock>>
    /\ ConcUnchanged

\* process_schedule_add: create_job_for_schedule(...)
Arm(t) ==
    LET r == th[t].req
    IN  /\ th[t].pc = "arm"
        /\ job_queue' = create_job_for_schedule(job_queue, r.chat_id, r.day, r.hours,
                                                r.minutes, r.thread_id)
        /\ th' = [th EXCEPT ![t].pc = "release", ![t].reply = "added"]
        /\ UNCHANGED <<schedule_file, scheduled_meets, schedule_lock>>
        /\ ConcUnchanged

\* process_schedule_delete: the loop over job_queue.jobs().
Cancel(t) ==
    LET r == th[t].req
    IN  /\ th[t].pc = "cancel"
        /\ \E o \in remove_jobs_loop(job_queue,
                       matching_jobs(job_queue, r.chat_id, r.day, r.hours,
                                     r.minutes)) :
              /\ job_queue' = o.queue
              /\ th' = [th EXCEPT ![t].pc = "release",
                                  ![t].reply = IF o.raised THEN "error"
                                               ELSE IF th[t].deleted THEN "deleted"
                                               ELSE "not_found"]
        /\ UNCHANGED <<schedule_file, scheduled_meets, schedule_lock>>
        /\ ConcUnchanged

\* with schedule_lock: (exit, also on return and on an exception)
Release(t) ==
    /\ th[t].pc = "release"
    /\ schedule_lock' = None
    /\ th' = [th EXCEPT ![t].pc = "done"]
    /\ UNCHANGED <<schedule_file, scheduled_meets, job_queue>>
    /\ ConcUnchanged

ConcNext ==
    \E t \in Threads :
        \/ Acquire(t)
        \/ Load(t)
        \/ Check(t)
        \/ AppendEntry(t)
        \/ Filter(t)
        \/ Save(t)
        \/ Arm(t)
        \/ Cancel(t)
        \/ Release(t)

ConcSpec == ConcInit /\ [][ConcNext]_vars

\* The file a request leaves when its locked block runs alone on file f.
FileAfter(req, f) ==
    IF req.op = "add"
    THEN add_block(f, EmptyBag, req.chat_id, req.day, req.hours, req.minutes,
                   req.thread_id).file
    ELSE (CHOOSE o \in delete_block(f, EmptyBag, req.chat_id, req.day, req.hours,
                                    req.minutes) : TRUE).file

\* The files the two requests leave when served one after the other.
SerialFiles ==
    { FileAfter(th[b].req, FileAfter(th[a].req, th[a].file0)) :
        <<a, b>> \in {<<1, 2>>, <<2, 1>>} }

InBlock(t) == th[t].pc \in {"load", "check", "append", "filter", "save", "arm",
                            "cancel", "release"}

\* C10: a handler is between its load and the end of its block only while
\* it holds schedule_lock, and when both handlers are done the file is the
\* one that serving them one after the other, in some order, leaves.
C10_LockedAndSerializable ==
    /\ \A t \in DOMAIN th : InBlock(t) => schedule_lock = Some(t)
    /\ (DOMAIN th = Threads /\ \A t \in Threads : th[t].pc = "done")
          => schedule_file \in SerialFiles

\* Two adds for different chats arrived with no file on disk; both are done
\* and the file holds both entries.
C10_Witness ==
    /\ DOMAIN th = Threads
    /\ \A t \in Threads : th[t].pc = "done" /\ th[t].reply = "added"
    /\ th[1].req.chat_id # th[2].req.chat_id
    /\ th[1].file0 = NoFile
    /\ \A t \in Threads :
          Holds(schedule_file, th[t].req.chat_id,
                schedule_entry(th[t].req.day, th[t].req.hours, th[t].req.minutes,
                               th[t].req.thread_id))

----------------------------------------------------------------------------
(* The two handlers and the reload job: reload_schedules_job runs          *)
(* setup_schedules on the job queue's thread while the handlers run on the *)
(* dispatcher's.                                                           *)

ReloadThread == 0

reload_thread == [req |-> [op |-> "reload"], pc |-> "clear"]

RaceInit ==
    /\ schedule_file \in InitFiles
    /\ scheduled_meets = load_schedules(schedule_file)
    /\ user_states = [k \in StateKeys |-> "none"]
    /\ job_queue = setup_schedules(EmptyBag, schedule_file).queue
                   (+) SetToBag({ReloadJob})
    /\ pc = "running"
    /\ last = Op("init", "")
    /\ rc = calc_idle
    /\ th \in { [t \in Threads \cup {ReloadThread} |->
                    IF t = ReloadThread THEN reload_thread
                    ELSE Thread(r[t], schedule_file)] :
                  r \in [Threads -> ConcRequests] }
    /\ schedule_lock = None
    /\ sm = send_idle
    /\ RemindersIdle

\* setup_schedules: the loop that removes every job, before the lock is
\* taken.
ReloadClear ==
    /\ th[ReloadThread].pc = "clear"
    /\ job_queue' = clear_jobs(job_queue)
    /\ th' = [th EXCEPT ![ReloadThread].pc = "wait"]
    /\ UNCHANGED <<schedule_file, scheduled_meets, schedule_lock>>
    /\ ConcUnchanged

\* setup_schedules: with schedule_lock: (entry)
ReloadAcquire ==
    /\ th[ReloadThread].pc = "wait"
    /\ lock_free(schedule_lock)
    /\ schedule_lock' = Some(ReloadThread)
    /\ th' = [th EXCEPT ![ReloadThread].pc = "setup"]
    /\ UNCHANGED <<schedule_file, scheduled_meets, job_queue>>
    /\ ConcUnchanged

\* setup_schedules: load_schedules() and one create_job_for_schedule per
\* entry, onto the queue as it is now.
ReloadArm ==
    LET m == load_schedules(schedule_file)
    IN  /\ th[ReloadThread].pc = "setup"
        /\ scheduled_meets' = m
        /\ job_queue' = arm_chats(job_queue, m, DOMAIN m)
        /\ th' = [th EXCEPT ![ReloadThread].pc = "release"]
        /\ UNCHANGED <<schedule_file, schedule_lock>>
        /\ ConcUnchanged

RaceNext ==
    \/ ConcNext
    \/ ReloadClear
    \/ ReloadAcquire
    \/ ReloadArm
    \/ Release(ReloadThread)

RaceSpec == RaceInit /\ [][RaceNext]_vars

AllDone == \A t \in DOMAIN th : th[t].pc = "done"

\* C25: when the two handlers and the reload that ran beside them have all
\* finished, the weekly jobs of the queue are one per entry of the file:
\* no entry has two jobs or none, and no job is without its entry.
C25_RaceLeavesOneJobPerEntry ==
    (ReloadThread \in DOMAIN th /\ AllDone) =>
        WeeklyJobs(job_queue) = JobsOfFile(schedule_file)

----------------------------------------------------------------------------
(* Properties of the delete, validation and list paths *)

\* A step in which an administrator's valid /deletetime request for entry e
\* of chat_id is handled.
DirectDeleteStep(chat_id, e) ==
    \E t \in ValidTexts(chat_id) :
        /\ e = schedule_entry(DAYS_RU[t.day_text], t.hh, t.mm, e.thread_id)
        /\ delete_schedule_direct(chat_id, "administrator", e.thread_id, t)

\* A step in which a valid text of the delete conversation is handled.
ConvDeleteStep(chat_id, t) ==
    \E user_id \in UserIds : process_schedule_delete(chat_id, user_id, t)

\* The file holds an entry of the chat in the slot of text t, in any thread.
HoldsSlot(f, chat_id, t) ==
    schedule_exists(FileList(f, chat_id), DAYS_RU[t.day_text], t.hh, t.mm)

\* C11: a valid delete request that matches no entry of the chat is answered
\* "not found" and leaves the file, the in-memory store and the job queue as
\* they were, whatever the queue holds.
C11_DeleteOfAbsentEntryChangesNothing ==
    [][/\ \A chat_id \in ChatIds : \A e \in Entries(chat_id) :
            (/\ last'.op = "delete_schedule_direct"
             /\ ~Holds(schedule_file, chat_id, e)
             /\ DirectDeleteStep(chat_id, e))
            => /\ last'.reply = "not_found"
               /\ UNCHANGED <<schedule_file, scheduled_meets, job_queue>>
       /\ \A chat_id \in ConversationChats : \A t \in ValidTexts(chat_id) :
            (/\ last'.op = "process_schedule_delete"
             /\ ~HoldsSlot(schedule_file, chat_id, t)
             /\ ConvDeleteStep(chat_id, t))
            => /\ last'.reply = "not_found"
               /\ UNCHANGED <<schedule_file, scheduled_meets, job_queue>>]_vars

\* Across the step, everything but entry e0 of chat0 is kept: the other
\* entries of chat0 in their order, the lists of the other chats, and the
\* weekly jobs of every other (chat, entry).
OthersKept(chat0, e0) ==
    /\ SelectSeq(FileList(schedule_file', chat0), LAMBDA it : it # e0) =
       SelectSeq(FileList(schedule_file, chat0), LAMBDA it : it # e0)
    /\ \A c \in ChatIds \ {chat0} :
          FileList(schedule_file', c) = FileList(schedule_file, c)
    /\ \A c \in ChatIds : \A e \in Entries(c) :
          <<c, e>> # <<chat0, e0>> => Armed(job_queue', c, e) = Armed(job_queue, c, e)

\* C12: a delete request removes only the entry of its chat whose day,
\* hours, minutes and thread_id all match: the other entries of the chat
\* (those of another thread too) and of the other chats stay, in order,
\* and their weekly jobs stay queued.
C12_DeleteKeepsOtherEntries ==
    [][\A chat0 \in ChatIds :
          /\ last'.op = "delete_schedule_direct" =>
                \A e0 \in Entries(chat0) :
                    DirectDeleteStep(chat0, e0) => OthersKept(chat0, e0)
          /\ (last'.op = "process_schedule_delete" /\ chat0 \in ConversationChats) =>
                \A t \in ValidTexts(chat0) :
                    ConvDeleteStep(chat0, t) =>
                        \E thread_id \in ThreadsOf(chat0) :
                            OthersKept(chat0, schedule_entry(DAYS_RU[t.day_text], t.hh,
                                                             t.mm, thread_id))]_vars

----------------------------------------------------------------------------
(* The texts as the handlers read them: sequences of characters, and the   *)
(* parsing each handler does on them.                                       *)

is_digit(ch) == \E i \in 1..10 : Digits[i] = ch

digit_value(ch) == (CHOOSE i \in 1..10 : Digits[i] = ch) - 1

\* The keys of DAYS_RU, letter by letter (transliterated), in the order of
\* the dict.
DayNames ==
    << "ponedelnik", "vtornik", "sreda", "chetverg", "pyatnitsa", "subbota",
       "voskresenye" >>

DayLetters ==
    [ponedelnik  |-> <<"p", "o", "n", "e", "d", "e", "l", "n", "i", "k">>,
     vtornik     |-> <<"v", "t", "o", "r", "n", "i", "k">>,
     sreda       |-> <<"s", "r", "e", "d", "a">>,
     chetverg    |-> <<"c", "h", "e", "t", "v", "e", "r", "g">>,
     pyatnitsa   |-> <<"p", "y", "a", "t", "n", "i", "t", "s", "a">>,
     subbota     |-> <<"s", "u", "b", "b", "o", "t", "a">>,
     voskresenye |-> <<"v", "o", "s", "k", "r", "e", "s", "e", "n", "y", "e">>]

\* str.strip() on spaces.
RECURSIVE lstrip(_)
lstrip(t) == IF t # <<>> /\ Head(t) = " " THEN lstrip(Tail(t)) ELSE t

RECURSIVE rstrip(_)
rstrip(t) ==
    IF t # <<>> /\ t[Len(t)] = " " THEN rstrip(SubSeq(t, 1, Len(t) - 1)) ELSE t

strip(t) == rstrip(lstrip(t))

\* The positions at which separator character sep occurs in t.
positions(t, sep) == {i \in 1..Len(t) : t[i] = sep}

\* str.split(sep): the pieces between the occurrences of sep.
RECURSIVE split(_, _)
split(t, sep) ==
    IF positions(t, sep) = {} THEN <<t>>
    ELSE LET i == CHOOSE k \in positions(t, sep) : \A j \in positions(t, sep) : k <= j
         IN  <<SubSeq(t, 1, i - 1)>> \o split(SubSeq(t, i + 1, Len(t)), sep)

\* str.split(' ', 1): at most one split, at the first space.
split_once(t) ==
    IF positions(t, " ") = {} THEN <<t>>
    ELSE LET i == CHOOSE k \in positions(t, " ") : \A j \in positions(t, " ") : k <= j
         IN  <<SubSeq(t, 1, i - 1), SubSeq(t, i + 1, Len(t))>>

\* str.split(): the words between runs of spaces.
split_words(t) == SelectSeq(split(t, " "), LAMBDA w : w # <<>>)

\* The value of a run of digits.
RECURSIVE digits_value(_)
digits_value(t) ==
    IF t = <<>> THEN 0
    ELSE 10 * digits_value(SubSeq(t, 1, Len(t) - 1)) + digit_value(t[Len(t)])

all_digits(t) == t # <<>> /\ \A i \in 1..Len(t) : is_digit(t[i])

\* int(s): surrounding spaces and one sign are accepted; None when int()
\* raises ValueError.
int_of(t) ==
    LET u == strip(t)
        signed == u # <<>> /\ Head(u) \in {"-", "+"}
        body == IF signed THEN Tail(u) ELSE u
    IN  IF ~all_digits(body) THEN None
        ELSE Some(IF signed /\ Head(u) = "-" THEN 0 - digits_value(body)
                  ELSE digits_value(body))

\* The day name a word is, or "" (day_text not in DAYS_RU).
day_of_word(w) ==
    IF \E i \in 1..7 : DayLetters[DayNames[i]] = w
    THEN DayNames[CHOOSE i \in 1..7 : DayLetters[DayNames[i]] = w]
    ELSE ""

\* "w in t" on strings.
contains(t, w) ==
    \E i \in 1..(Len(t) - Len(w) + 1) : SubSeq(t, i, i + Len(w) - 1) = w

\* t.replace(w, "")
RECURSIVE remove_all(_, _)
remove_all(t, w) ==
    IF ~contains(t, w) THEN t
    ELSE LET i == CHOOSE k \in 1..(Len(t) - Len(w) + 1) :
                      /\ SubSeq(t, k, k + Len(w) - 1) = w
                      /\ \A j \in 1..(k - 1) : SubSeq(t, j, j + Len(w) - 1) # w
         IN  SubSeq(t, 1, i - 1) \o remove_all(SubSeq(t, i + Len(w), Len(t)), w)

\* A match of (\d{1,2}):(\d{2}) that starts at position i, with n digits
\* of hours.
time_at(t, i, n) ==
    /\ i + n + 2 <= Len(t)
    /\ \A k \in i..(i + n - 1) : is_digit(t[k])
    /\ t[i + n] = ":"
    /\ is_digit(t[i + n + 1]) /\ is_digit(t[i + n + 2])

\* re.search(r'(\d{1,2}):(\d{2})', t): the leftmost match, two digits of
\* hours tried first; None when nothing matches.
time_search(t) ==
    LET starts == {i \in 1..Len(t) : time_at(t, i, 2) \/ time_at(t, i, 1)}
    IN  IF starts = {} THEN None
        ELSE LET i == CHOOSE k \in starts : \A j \in starts : k <= j
                 n == IF time_at(t, i, 2) THEN 2 ELSE 1
             IN  Some([hh |-> digits_value(SubSeq(t, i, i + n - 1)),
                       mm |-> digits_value(SubSeq(t, i + n + 1, i + n + 2))])

\* hours, minutes = map(int, time_text.split(':')): the two numbers, or None
\* when the unpacking or int() raises.
time_of_text(time_text) ==
    LET pieces == split(time_text, ":")
    IN  IF Len(pieces) # 2 \/ int_of(pieces[1]) = None \/ int_of(pieces[2]) = None
        THEN None
        ELSE Some([hh |-> CHOOSE v \in int_of(pieces[1]) : TRUE,
                   mm |-> CHOOSE v \in int_of(pieces[2]) : TRUE])

\* What a handler has after its parsing, as the Text the handlers of the
\* model read: a time that did not parse is the time -1:-1, which fails the
\* range check as the except clause of the time parsing does.
ParsedText(parts, day_text, time) ==
    IF time = None THEN Text(parts, day_text, 0 - 1, 0 - 1)
    ELSE LET tm == CHOOSE v \in time : TRUE IN Text(parts, day_text, tm.hh, tm.mm)

\* process_schedule_add: day_text, time_text = text.split(' ', 1)
parse_add(t) ==
    LET pieces == split_once(t)
    IN  IF Len(pieces) < 2 THEN ParsedText(1, "", None)
        ELSE ParsedText(2, day_of_word(pieces[1]), time_of_text(pieces[2]))

\* process_schedule_delete: parts = text.split(), exactly two words.
parse_delete(t) ==
    LET words == split_words(t)
    IN  IF Len(words) # 2 THEN ParsedText(Len(words), "", None)
        ELSE ParsedText(2, day_of_word(words[1]), time_of_text(words[2]))

\* add_schedule_direct: context.args[0] and context.args[1].
parse_addtime(t) ==
    LET args == split_words(t)
    IN  IF Len(args) < 2 THEN ParsedText(Len(args), "", None)
        ELSE ParsedText(2, day_of_word(args[1]), time_of_text(args[2]))

\* delete_schedule_direct: the first day name of DAYS_RU found anywhere in
\* the arguments, then the first HH:MM found in what is left.
parse_deletetime(t) ==
    LET arguments == strip(t)
        found == {i \in 1..7 : contains(arguments, DayLetters[DayNames[i]])}
    IN  IF arguments = <<>> THEN ParsedText(1, "", None)
        ELSE IF found = {} THEN ParsedText(2, "", time_search(arguments))
        ELSE LET day == DayNames[CHOOSE i \in found : \A j \in found : i <= j]
                 remaining_text == strip(remove_all(arguments, DayLetters[day]))
             IN  ParsedText(2, day, time_search(remaining_text))

\* The characters of a text written without spaces between them.
Sreda == <<"s", "r", "e", "d", "a">>

Time(h, m) == h \o <<":">> \o m

Words(day_word, time_text) == day_word \o <<" ">> \o time_text

\* The texts sent, each with what it is: valid, or the way it is invalid.
\*   sreda 12:46     valid
\*   sredaa 12:46    not a day name
\*   sryda 12:46     not a day name
\*   sreda 12-46     not HH:MM
\*   sreda 24:46     hour 24
\*   sreda 112:46    hour 112
\*   sreda 12:60     minute 60
\*   sreda 12:460    minute 460
RawTexts ==
    { [kind |-> "valid",
       text |-> Words(Sreda, Time(<<"1", "2">>, <<"4", "6">>))],
      [kind |-> "unknown_day",
       text |-> Words(Sreda \o <<"a">>, Time(<<"1", "2">>, <<"4", "6">>))],
      [kind |-> "unknown_day",
       text |-> Words(<<"s", "r", "y", "d", "a">>, Time(<<"1", "2">>, <<"4", "6">>))],
      [kind |-> "malformed_time",
       text |-> Words(Sreda, <<"1", "2", "-", "4", "6">>)],
      [kind |-> "hour_out_of_range",
       text |-> Words(Sreda, Time(<<"2", "4">>, <<"4", "6">>))],
      [kind |-> "hour_out_of_range",
       text |-> Words(Sreda, Time(<<"1", "1", "2">>, <<"4", "6">>))],
      [kind |-> "minute_out_of_range",
       text |-> Words(Sreda, Time(<<"1", "2">>, <<"6", "0">>))],
      [kind |-> "minute_out_of_range",
       text |-> Words(Sreda, Time(<<"1", "2">>, <<"4", "6", "0">>))] }

\* The handlers on a text of an administrator, each after its own parsing.
TextAddStep(chat_id, thread_id, x) ==
    \E user_id \in UserIds :
        process_schedule_add(chat_id, user_id, thread_id, parse_add(x.text))

TextDeleteStep(chat_id, x) ==
    \E user_id \in UserIds :
        process_schedule_delete(chat_id, user_id, parse_delete(x.text))

TextAddTimeStep(chat_id, thread_id, x) ==
    add_schedule_direct(chat_id, "administrator", thread_id, parse_addtime(x.text))

TextDeleteTimeStep(chat_id, thread_id, x) ==
    delete_schedule_direct(chat_id, "administrator", thread_id,
                           parse_deletetime(x.text))

TextAdd ==
    \E chat_id \in ConversationChats, x \in RawTexts :
    \E thread_id \in ThreadsOf(chat_id) : TextAddStep(chat_id, thread_id, x)

TextDelete ==
    \E chat_id \in ConversationChats, x \in RawTexts : TextDeleteStep(chat_id, x)

TextAddTime ==
    \E chat_id \in ChatIds, x \in RawTexts :
    \E thread_id \in ThreadsOf(chat_id) : TextAddTimeStep(chat_id, thread_id, x)

TextDeleteTime ==
    \E chat_id \in ChatIds, x \in RawTexts :
    \E thread_id \in ThreadsOf(chat_id) : TextDeleteTimeStep(chat_id, thread_id, x)

TextNext ==
    \/ Main
    \/ ReloadSchedulesJob
    \/ AddScheduleCommand
    \/ DeleteScheduleCommand
    \/ TextAdd
    \/ TextDelete
    \/ TextAddTime
    \/ TextDeleteTime

\* The bot on texts given character by character.
TextSpec == Init /\ [][TextNext]_vars

ValidationReplies == {"bad_day", "bad_time", "bad_format"}

Rejected ==
    /\ last'.reply \in ValidationReplies
    /\ UNCHANGED <<schedule_file, scheduled_meets, job_queue>>

\* C13: an add or delete request with an unknown day name, a malformed time,
\* or an hour or minute out of range is answered with a validation message
\* and changes neither the file, nor the in-memory store, nor the job queue.
C13_InvalidInputIsRejected ==
    [][\A x \in RawTexts : x.kind # "valid" =>
         \A chat_id \in ChatIds : \A thread_id \in ThreadsOf(chat_id) :
            /\ (last'.op = "process_schedule_add"
                /\ TextAddStep(chat_id, thread_id, x)) => Rejected
            /\ (last'.op = "process_schedule_delete"
                /\ TextDeleteStep(chat_id, x)) => Rejected
            /\ (last'.op = "add_schedule_direct"
                /\ TextAddTimeStep(chat_id, thread_id, x)) => Rejected
            /\ (last'.op = "delete_schedule_direct"
                /\ TextDeleteTimeStep(chat_id, thread_id, x)) => Rejected]_vars

----------------------------------------------------------------------------
(* Sending: send_meet_link and send_instant_meet_link attempt by attempt,  *)
(* on a clock that fires the weekly jobs.                                  *)
(*                                                                         *)
(* sm holds the clock now (an instant in seconds, as instant() counts      *)
(* them), the next run time due of every weekly job of the queue, and the  *)
(* call in progress.  The calls to the Bot API (send_message, reply_text)  *)
(* are the statements that fail; run_once on the running queue does not.   *)
(* The clock reads the instants at which jobs come due; the seconds a call *)
(* takes are not counted.                                                  *)

\* Weeks of firings the clock covers.
MaxWeeks == 2

\* An interval of one day.
interval_daily == days(1)

\* run_repeating(..., interval=datetime.timedelta(days=7), ...)
interval == days(7)

\* datetime.datetime.now(MOSCOW_TZ) at the instant t.
now_moscow(t) == DateTime(t + utcoffset("Europe/Moscow"), "Europe/Moscow")

meet_jobs(q) == {j \in DOMAIN q : j.callback = "send_meet_link"}

context_of(job) == CHOOSE c \in job.context : TRUE

\* The first run of a weekly job created at the instant t.
first_due(job, t) ==
    LET c == context_of(job)
    IN  instant(first_run_time(c.day, c.hours, c.minutes, now_moscow(t)))

\* The next run times after setup_schedules ran at the instant t.
due_after_setup(q, t) == [j \in meet_jobs(q) |-> first_due(j, t)]

\* One call to the Bot API: the text, where it goes, and whether the API
\* took it.
Post(text, chat_id, thread_id, delivered) ==
    [text |-> text, chat_id |-> chat_id, thread_id |-> thread_id,
     delivered |-> delivered]

no_call == [pc |-> "idle"]

\* The entry of a send function: chat and thread are read, attempt is 0.
send_call(fn, chat_id, thread_id, job, fired_at) ==
    [pc |-> "attempt", fn |-> fn, chat_id |-> chat_id, thread_id |-> thread_id,
     job |-> job, fired_at |-> fired_at, attempt |-> 0, posts |-> <<>>]

\* An attempt that goes on to a fourth attempt after the third failed.
attempt_step_four_attempts(call, delivered) ==
    LET post == Post("link", call.chat_id, call.thread_id, delivered)
    IN  [call EXCEPT !.posts = Append(@, post),
                     !.pc = IF delivered THEN "returned"
                            ELSE IF call.attempt < 3 THEN "sleep"
                            ELSE "report"]

\* The body of "for attempt in range(3)": the link is sent; on success the
\* loop is left (break); on failure the loop sleeps and goes on, or, on the
\* last attempt, re-raises into the outer except clause.
attempt_step(call, delivered) ==
    LET post == Post("link", call.chat_id, call.thread_id, delivered)
    IN  [call EXCEPT !.posts = Append(@, post),
                     !.pc = IF delivered THEN "returned"
                            ELSE IF call.attempt < 2 THEN "sleep"
                            ELSE "report"]

\* time.sleep(2), then the next iteration.
sleep_step(call) == [call EXCEPT !.attempt = @ + 1, !.pc = "attempt"]

\* An outer except clause whose error message is sent unguarded.
report_step_unguarded(call, delivered) ==
    LET post == Post("error", call.chat_id, call.thread_id, delivered)
    IN  [call EXCEPT !.posts = Append(@, post),
                     !.pc = IF delivered THEN "returned" ELSE "raised"]

\* The outer except clause: the error message is sent.  send_meet_link
\* sends it inside a try of its own, send_instant_meet_link does not.
report_step(call, delivered) ==
    LET post == Post("error", call.chat_id, call.thread_id, delivered)
    IN  [call EXCEPT !.posts = Append(@, post),
                     !.pc = IF delivered \/ call.fn = "send_meet_link"
                            THEN "returned" ELSE "raised"]

\* The starts of the clock: a Monday at 09:00 and a Thursday at 10:00,
\* Moscow time.
StartTimes ==
    { instant(DateTime(days(0) + 9 * 3600, "Europe/Moscow")),
      instant(DateTime(days(3) + 10 * 3600, "Europe/Moscow")) }

\* The bot after main().
SendInit ==
    /\ schedule_file \in InitFiles
    /\ scheduled_meets = load_schedules(schedule_file)
    /\ user_states = [k \in StateKeys |-> "none"]
    /\ job_queue = setup_schedules(EmptyBag, schedule_file).queue
                   (+) SetToBag({ReloadJob})
    /\ pc = "running"
    /\ last = Op("main", "")
    /\ rc = calc_idle
    /\ th = conc_idle
    /\ schedule_lock = None
    /\ RemindersIdle
    /\ \E t \in StartTimes :
          sm = [now |-> t, due |-> due_after_setup(job_queue, t), call |-> no_call]

SendUnchanged == UNCHANGED <<user_states, pc, rc, th, schedule_lock, rvars>>

\* A weekly job comes due: the queue sets its next run one interval after
\* this one and calls send_meet_link, which reads job.context.
Fire ==
    /\ sm.call.pc = "idle"
    /\ \E job \in meet_jobs(job_queue) :
          /\ \A other \in meet_jobs(job_queue) : sm.due[job] <= sm.due[other]
          /\ sm.due[job] < MaxWeeks * days(7)
          /\ sm' = [now |-> IF sm.due[job] > sm.now THEN sm.due[job] ELSE sm.now,
                    due |-> [sm.due EXCEPT ![job] = @ + interval],
                    call |-> send_call("send_meet_link", context_of(job).user_id,
                                       context_of(job).thread_id, Some(job),
                                       sm.due[job])]
    /\ last' = Op("send_meet_link", "")
    /\ UNCHANGED <<schedule_file, scheduled_meets, job_queue>>
    /\ SendUnchanged

\* /meet: send_instant_meet_link is entered.
SendInstantMeetLink ==
    /\ sm.call.pc = "idle"
    /\ \E chat_id \in ChatIds : \E thread_id \in ThreadsOf(chat_id) :
          sm' = [sm EXCEPT !.call = send_call("send_instant_meet_link", chat_id,
                                              thread_id, None, sm.now)]
    /\ last' = Op("send_instant_meet_link", "")
    /\ UNCHANGED <<schedule_file, scheduled_meets, job_queue>>
    /\ SendUnchanged

\* One attempt; a link that was sent has its deletion queued.
Attempt ==
    /\ sm.call.pc = "attempt"
    /\ \E delivered \in BOOLEAN :
          /\ sm' = [sm EXCEPT !.call = attempt_step(sm.call, delivered)]
          /\ IF delivered
             THEN /\ CopiesIn(DeleteMessageJob, job_queue) < MaxPendingDeletes
                  /\ job_queue' = job_queue (+) SetToBag({DeleteMessageJob})
             ELSE job_queue' = job_queue
    /\ UNCHANGED <<schedule_file, scheduled_meets, last>>
    /\ SendUnchanged

Sleep ==
    /\ sm.call.pc = "sleep"
    /\ sm' = [sm EXCEPT !.call = sleep_step(sm.call)]
    /\ UNCHANGED <<schedule_file, scheduled_meets, job_queue, last>>
    /\ SendUnchanged

ReportError ==
    /\ sm.call.pc = "report"
    /\ \E delivered \in BOOLEAN :
          sm' = [sm EXCEPT !.call = report_step(sm.call, delivered)]
    /\ UNCHANGED <<schedule_file, scheduled_meets, job_queue, last>>
    /\ SendUnchanged

\* The function returns, or its exception reaches the caller.
SendReturn ==
    /\ sm.call.pc \in {"returned", "raised"}
    /\ sm' = [sm EXCEPT !.call = no_call]
    /\ last' = Op(sm.call.fn, sm.call.pc)
    /\ UNCHANGED <<schedule_file, scheduled_meets, job_queue>>
    /\ SendUnchanged

\* reload_schedules_job between two sends: the weekly jobs are created anew
\* at the instant of the clock.
SendReload ==
    /\ sm.call.pc = "idle"
    /\ ReloadJob \in DOMAIN job_queue
    /\ LET s == setup_schedules(job_queue, schedule_file)
       IN  /\ scheduled_meets' = s.mem
           /\ job_queue' = s.queue
           /\ sm' = [sm EXCEPT !.due = due_after_setup(s.queue, sm.now)]
    /\ last' = Op("reload_schedules_job", "")
    /\ UNCHANGED schedule_file
    /\ SendUnchanged

\* An administrator's /deletetime sreda 12:46 between two sends.
SendDelete ==
    /\ sm.call.pc = "idle"
    /\ \E chat_id \in ChatIds : \E thread_id \in ThreadsOf(chat_id) :
       \E o \in delete_block_direct(schedule_file, job_queue, chat_id,
                                    DAYS_RU["sreda"], 12, 46, thread_id) :
          /\ schedule_file' = o.file
          /\ scheduled_meets' = o.mem
          /\ job_queue' = o.queue
          /\ sm' = [sm EXCEPT !.due = [j \in meet_jobs(o.queue) |-> sm.due[j]]]
          /\ last' = Op("delete_schedule_direct", o.reply)
    /\ SendUnchanged

\* A pending deletion runs.
SendDeleteMessage ==
    /\ DeleteMessageJob \in DOMAIN job_queue
    /\ job_queue' = job_queue (-) SetToBag({DeleteMessageJob})
    /\ UNCHANGED <<schedule_file, scheduled_meets, last, sm>>
    /\ SendUnchanged

SendNext ==
    \/ Fire
    \/ SendInstantMeetLink
    \/ Attempt
    \/ Sleep
    \/ ReportError
    \/ SendReturn
    \/ SendReload
    \/ SendDelete
    \/ SendDeleteMessage

SendSpec == SendInit /\ [][SendNext]_vars

\* A function that has been entered runs on: its thread is scheduled.
SendFairSpec == SendSpec /\ WF_vars(Attempt \/ Sleep \/ ReportError)

----------------------------------------------------------------------------
(* Properties of the send functions *)

LinkPosts(call) == SelectSeq(call.posts, LAMBDA p : p.text = "link")

ErrorPosts(call) == SelectSeq(call.posts, LAMBDA p : p.text = "error")

NoLinkDelivered(call) ==
    \A i \in 1..Len(call.posts) :
        call.posts[i].text = "link" => ~call.posts[i].delivered

\* C14: a call of send_meet_link never ends by raising to the job queue;
\* when it has returned with every attempt failed, it has tried to post the
\* error message exactly once, to the chat and the thread of the job's
\* context, whether or not that post was delivered, and the job is still in
\* the queue, due one week after the firing.
C14_FailedSendIsReportedAndSwallowed ==
    LET call == sm.call
    IN  (call.pc # "idle" /\ call.fn = "send_meet_link") =>
            /\ call.pc # "raised"
            /\ (call.pc = "returned" /\ NoLinkDelivered(call)) =>
                  \A job \in call.job :
                      /\ Len(ErrorPosts(call)) = 1
                      /\ ErrorPosts(call)[1].chat_id = context_of(job).user_id
                      /\ ErrorPosts(call)[1].thread_id = context_of(job).thread_id
                      /\ job \in DOMAIN job_queue
                      /\ sm.due[job] = call.fired_at + days(7)

\* The job of topic 7 fired, the three attempts failed and so did the post
\* of the error message; the function returned.
C14_Witness ==
    /\ sm.call.pc = "returned"
    /\ sm.call.fn = "send_meet_link"
    /\ sm.call.thread_id = Some(7)
    /\ Len(LinkPosts(sm.call)) = 3
    /\ NoLinkDelivered(sm.call)
    /\ Len(ErrorPosts(sm.call)) = 1
    /\ ~ErrorPosts(sm.call)[1].delivered
    /\ sm.call.job \subseteq DOMAIN job_queue

\* The posts of a call as the retry loop allows them: at most three link
\* posts; a delivered link is the last post and the call has returned; an
\* error post is the only one, comes last, and follows three failed links.
BoundedRetry(call) ==
    /\ Len(LinkPosts(call)) <= 3
    /\ \A i \in 1..Len(call.posts) :
          /\ (call.posts[i].text = "link" /\ call.posts[i].delivered) =>
                i = Len(call.posts) /\ call.pc = "returned"
          /\ call.posts[i].text = "error" =>
                /\ i = Len(call.posts)
                /\ i = 4
                /\ NoLinkDelivered(call)

Running(call) == call.pc \in {"attempt", "sleep", "report"}

Ended(call) == call.pc \in {"returned", "raised"}

EntryInFile(f, job) ==
    LET c == context_of(job)
    IN  Holds(f, c.user_id, schedule_entry(c.day, c.hours, c.minutes, c.thread_id))

\* The step enters send_meet_link for the job.
Fires(job) ==
    /\ sm.call.pc = "idle"
    /\ sm'.call.pc = "attempt"
    /\ sm'.call.job = Some(job)

\* The step ends a call of send_meet_link for the job.
EndsCallOf(job) ==
    /\ Ended(sm.call)
    /\ sm.call.job = Some(job)
    /\ sm'.call.pc = "idle"

\* C16: a weekly job that fires does so at its due time, stays in the queue
\* and is due again exactly 7 days later; that is still so when the call
\* ends, whatever the sends did.  A job leaves the queue, or has its due
\* time changed, only in a firing, a reload, or a delete request that took
\* its entry out of the file.
C16_FiringRearmsForNextWeek ==
    [][\A job \in meet_jobs(job_queue) :
          /\ Fires(job) =>
                /\ sm'.call.fired_at = sm.due[job]
                /\ job \in DOMAIN job_queue'
                /\ sm'.due[job] = sm.due[job] + days(7)
          /\ EndsCallOf(job) =>
                /\ job \in DOMAIN job_queue'
                /\ sm'.due[job] = sm.call.fired_at + days(7)
          /\ (~Fires(job) /\ (job \notin DOMAIN job_queue' \/ sm'.due[job] # sm.due[job])) =>
                \/ last'.op = "reload_schedules_job"
                \/ /\ last'.op = "delete_schedule_direct"
                   /\ ~EntryInFile(schedule_file', job)]_vars

\* Started on a Monday at 09:00: the job of topic 7 fired on Wednesday at
\* 12:45, fired again 7 days later, every send of the second call failed and
\* the call returned; the job is due 7 days after that.
C16_Witness ==
    LET job == EntryJob(555, schedule_entry(2, 12, 46, Some(7)))
        first == instant(DateTime(days(2) + 12 * 3600 + 45 * 60, "Europe/Moscow"))
    IN  /\ sm.call.pc = "returned"
        /\ sm.call.job = Some(job)
        /\ NoLinkDelivered(sm.call)
        /\ sm.call.fired_at = first + days(7)
        /\ job \in DOMAIN job_queue
        /\ sm.due[job] = first + days(14)

----------------------------------------------------------------------------
(* Loading a file that json.load rejects *)

\* scheduled_meets.json cut short while it was written: it holds the
\* beginning of the JSON text only.  It stands for every content that
\* json.load rejects.
PartialFile == [exists |-> TRUE, data |-> [k \in {"{"} |-> <<>>]]

json_valid(f) == "{" \notin DOMAIN f.data

LoadInit ==
    /\ schedule_file \in InitFiles \cup {PartialFile}
    /\ scheduled_meets = EmptyStore
    /\ user_states = [k \in StateKeys |-> "none"]
    /\ job_queue = EmptyBag
    /\ pc = "boot"
    /\ last = Op("init", "")
    /\ rc = calc_idle
    /\ th = conc_idle
    /\ schedule_lock = None
    /\ sm = send_idle
    /\ RemindersIdle

\* The file is cut short (the process that wrote it was stopped, the disk
\* was full).
Truncate ==
    /\ schedule_file.exists
    /\ json_valid(schedule_file)
    /\ schedule_file' = PartialFile
    /\ last' = Op("truncate", "")
    /\ UNCHANGED <<scheduled_meets, user_states, job_queue, pc>>
    /\ OtherSpecsIdle

\* main(): load_schedules() is not inside a handler of its own; json.load's
\* exception leaves main() through its finally clause and is logged by the
\* except clause of the script, after which the process ends.
LoadMain ==
    IF json_valid(schedule_file)
    THEN Main
    ELSE /\ pc = "boot"
         /\ pc' = "exited"
         /\ last' = Op("main", "raised")
         /\ UNCHANGED <<schedule_file, scheduled_meets, user_states, job_queue>>
         /\ OtherSpecsIdle

\* reload_schedules_job: setup_schedules has removed every job when
\* load_schedules raises; the job's except clause logs the exception.
LoadReload ==
    IF json_valid(schedule_file)
    THEN ReloadSchedulesJob
    ELSE /\ pc = "running"
         /\ ReloadJob \in DOMAIN job_queue
         /\ job_queue' = clear_jobs(job_queue)
         /\ last' = Op("reload_schedules_job", "error")
         /\ UNCHANGED <<schedule_file, scheduled_meets, user_states, pc>>
         /\ OtherSpecsIdle

\* add_schedule_direct: load_schedules raises inside the handler's try; the
\* except clause replies with the error text.
LoadAdd ==
    IF json_valid(schedule_file)
    THEN AddScheduleDirect
    ELSE /\ pc = "running"
         /\ last' = Op("add_schedule_direct", "error")
         /\ StoreUnchanged
         /\ UNCHANGED <<user_states, pc>>
         /\ OtherSpecsIdle

\* delete_schedule_direct: the same.
LoadDelete ==
    IF json_valid(schedule_file)
    THEN DeleteScheduleDirect
    ELSE /\ pc = "running"
         /\ last' = Op("delete_schedule_direct", "error")
         /\ StoreUnchanged
         /\ UNCHANGED <<user_states, pc>>
         /\ OtherSpecsIdle

\* list_schedules has no try: the exception of load_schedules leaves the
\* handler.
LoadList ==
    IF json_valid(schedule_file)
    THEN ListSchedules
    ELSE /\ pc = "running"
         /\ last' = Op("list_schedules", "raised")
         /\ StoreUnchanged
         /\ UNCHANGED <<user_states, pc>>
         /\ OtherSpecsIdle

LoadNext ==
    \/ Truncate
    \/ LoadMain
    \/ LoadReload
    \/ LoadAdd
    \/ LoadDelete
    \/ LoadList

LoadSpec == LoadInit /\ [][LoadNext]_vars

LoadingOps ==
    {"main", "reload_schedules_job", "add_schedule_direct",
     "delete_schedule_direct", "list_schedules"}

\* C17: an operation that loads a schedule file json.load rejects (startup,
\* reload, add, remove, list) leaves the process running, does not raise
\* out of the operation, and leaves the in-memory store empty.
C17_InvalidFileFallsBackToEmpty ==
    [][(~json_valid(schedule_file) /\ last'.op \in LoadingOps) =>
          /\ pc' = "running"
          /\ last'.reply # "raised"
          /\ scheduled_meets' = EmptyStore]_vars

HandlerOps == {"add_schedule_direct", "delete_schedule_direct", "list_schedules"}

\* C18: a message handler (add, delete, list) that met an unexpected error,
\* here the exception of load_schedules on a file json.load rejects, has
\* caught it and answered with its generic failure message.
C18_HandlerErrorsAreAnswered ==
    (~json_valid(schedule_file) /\ last.op \in HandlerOps) => last.reply = "error"

----------------------------------------------------------------------------
(* The supergroup with one sender who is not an administrator *)

MemberChat == 555

\* member.status of a sender who is neither creator nor administrator.
NonAdminStatus == "member"

MemberAddCommand ==
    \E user_id \in UserIds : add_schedule_command(MemberChat, user_id, NonAdminStatus)

MemberDeleteCommand ==
    \E user_id \in UserIds : delete_schedule_command(MemberChat, user_id, NonAdminStatus)

\* A text message of the sender: handle_text passes it on by the stored
\* state.
MemberText ==
    \E user_id \in UserIds : \E r \in TextRequests(MemberChat) :
        \/ process_schedule_add(MemberChat, user_id, r.thread_id, r.text)
        \/ process_schedule_delete(MemberChat, user_id, r.text)

MemberAddTime ==
    \E r \in DirectRequests(MemberChat) :
        /\ r.status = NonAdminStatus
        /\ add_schedule_direct(MemberChat, r.status, r.thread_id, r.text)

MemberDeleteTime ==
    \E r \in DirectRequests(MemberChat) :
        /\ r.status = NonAdminStatus
        /\ delete_schedule_direct(MemberChat, r.status, r.thread_id, r.text)

MemberList ==
    \E thread_id \in ThreadsOf(MemberChat) : list_schedules(MemberChat, thread_id)

MemberNext ==
    \/ Main
    \/ ReloadSchedulesJob
    \/ MemberAddCommand
    \/ MemberDeleteCommand
    \/ MemberText
    \/ MemberAddTime
    \/ MemberDeleteTime
    \/ MemberList

MemberSpec == Init /\ [][MemberNext]_vars

MessageOps ==
    {"add_schedule_command", "delete_schedule_command", "process_schedule_add",
     "process_schedule_delete", "add_schedule_direct", "delete_schedule_direct",
     "list_schedules"}

\* C19: no command or text message of a sender who is neither creator nor
\* administrator of the supergroup changes the chat's entries in the file
\* or the weekly jobs of the queue.
C19_NonAdminChangesNothing ==
    [][last'.op \in MessageOps =>
          /\ FileList(schedule_file', MemberChat) = FileList(schedule_file, MemberChat)
          /\ WeeklyJobs(job_queue') = WeeklyJobs(job_queue)]_vars

----------------------------------------------------------------------------
(* Listing after an add *)

\* What /list sent from thread_id shows for a chat, given the file.
Listed(f, chat_id, thread_id) == schedules_list(FileList(f, chat_id), thread_id)

\* The line shows the day, the hour and the minute of the entry.
ShowsEntry(line, e) ==
    /\ DAYS_RU[line.day] = e.day
    /\ time_of_text(line.time) = Some([hh |-> e.hours, mm |-> e.minutes])

\* C20: when a valid add request for an entry is answered "added" in a chat
\* that held no entries, the list of that chat, asked for without a thread
\* or from the thread of the entry, is exactly one line, which shows the
\* day, the hour and the minute of the entry.
C20_ListAfterFirstAddShowsTheEntry ==
    [][\A chat_id \in ChatIds : \A e \in Entries(chat_id) :
          (/\ last'.op \in AddOps
           /\ last'.reply = "added"
           /\ FileList(schedule_file, chat_id) = <<>>
           /\ AddStep(chat_id, e))
          => \A thread_id \in {None, e.thread_id} :
                /\ Len(Listed(schedule_file', chat_id, thread_id)) = 1
                /\ ShowsEntry(Listed(schedule_file', chat_id, thread_id)[1], e)]_vars

\* Wednesday 12:46 was added in topic 7 of the supergroup, which holds that
\* entry only; the list from topic 7 is the line "sreda 12:46".
C20_Witness ==
    /\ last.op \in AddOps
    /\ last.reply = "added"
    /\ FileList(schedule_file, 555) = <<schedule_entry(2, 12, 46, Some(7))>>
    /\ Listed(schedule_file, 555, Some(7)) =
          <<[day |-> "sreda", time |-> <<"1", "2", ":", "4", "6">>]>>

----------------------------------------------------------------------------
(* Listing the stores a file may hold *)

\* Entries a chat's list holds at most.
MaxListLen == 2

\* The entries of the files: two days, two times, the threads of the chat.
ListEntries(chat_id) ==
    { schedule_entry(d, t[1], t[2], thread_id) :
        d \in {2, 6}, t \in {<<12, 46>>, <<9, 5>>}, thread_id \in ThreadsOf(chat_id) }

ListsOf(chat_id) ==
    { items \in UNION { [1..n -> ListEntries(chat_id)] : n \in 0..MaxListLen } :
        NoDuplicates(items) }

\* The stores of the files: a list for the supergroup, and for the private
\* chat no list, an empty list or one entry.
ListStores ==
    { [c \in {555} |-> a] : a \in ListsOf(555) }
    \cup { [c \in {555, 777} |-> IF c = 555 THEN a ELSE b] :
             a \in ListsOf(555), b \in {<<>>, <<schedule_entry(2, 12, 46, None)>>} }

\* The bot after main() on one of the files.
ListInit ==
    /\ schedule_file \in {NoFile} \cup { save_schedules(m) : m \in ListStores }
    /\ scheduled_meets = load_schedules(schedule_file)
    /\ user_states = [k \in StateKeys |-> "none"]
    /\ job_queue = setup_schedules(EmptyBag, schedule_file).queue
                   (+) SetToBag({ReloadJob})
    /\ pc = "running"
    /\ last = Op("main", "")
    /\ rc = calc_idle
    /\ th = conc_idle
    /\ schedule_lock = None
    /\ sm = send_idle
    /\ RemindersIdle

ListNext == ListSchedules

ListSpec == ListInit /\ [][ListNext]_vars

\* The entries of a list that /list sent from thread_id is meant to show.
EntriesOfThread(items, thread_id) ==
    IF thread_id = None THEN items
    ELSE SelectSeq(items, LAMBDA it : it.thread_id = thread_id)

\* C21: /list sent from a thread shows, in stored order, one line for each
\* entry of the chat with that thread, and sent outside a thread one line
\* for each entry of the chat; the lines are sent exactly when there is one
\* to show, and the step changes neither the file nor the job queue.
C21_ListShowsTheChatsEntries ==
    [][\A chat_id \in ChatIds : \A thread_id \in ThreadsOf(chat_id) :
          (last'.op = "list_schedules" /\ list_schedules(chat_id, thread_id)) =>
              LET want == EntriesOfThread(FileList(schedule_file, chat_id), thread_id)
                  got == Listed(schedule_file, chat_id, thread_id)
              IN  /\ Len(got) = Len(want)
                  /\ \A i \in 1..Len(want) : ShowsEntry(got[i], want[i])
                  /\ (last'.reply = "listed") <=> (want # <<>>)
                  /\ schedule_file' = schedule_file
                  /\ job_queue' = job_queue]_vars

\* The supergroup holds Sunday 09:05 of topic 7 before Wednesday 12:46
\* without a thread, the private chat holds one entry, and a list was sent:
\* from topic 7 it is the line "voskresenye 09:05", outside a thread that
\* line and then "sreda 12:46".
C21_Witness ==
    /\ last = Op("list_schedules", "listed")
    /\ FileList(schedule_file, 555) =
          <<schedule_entry(6, 9, 5, Some(7)), schedule_entry(2, 12, 46, None)>>
    /\ Len(FileList(schedule_file, 777)) = 1
    /\ Listed(schedule_file, 555, Some(7)) =
          <<[day |-> "voskresenye", time |-> <<"0", "9", ":", "0", "5">>]>>
    /\ Listed(schedule_file, 555, None) =
          <<[day |-> "voskresenye", time |-> <<"0", "9", ":", "0", "5">>],
            [day |-> "sreda", time |-> <<"1", "2", ":", "4", "6">>]>>
    /\ WeeklyJobs(job_queue) # EmptyBag

----------------------------------------------------------------------------
(* Reload after reload *)

----------------------------------------------------------------------------
(* The send functions when queueing the deletion can fail                  *)
(*                                                                         *)
(* send_message and job_queue.run_once are in the same try of the retry    *)
(* loop.  SendSpec takes run_once to succeed; here an attempt may also     *)
(* deliver the link and then raise from run_once.                          *)

\* The link was sent and run_once raised: the except clause of the loop
\* treats the attempt like one whose send failed.
attempt_step_schedule_fails(call) ==
    [attempt_step(call, FALSE) EXCEPT
        !.posts = Append(call.posts, Post("link", call.chat_id, call.thread_id, TRUE))]

AttemptScheduleFails ==
    /\ sm.call.pc = "attempt"
    /\ sm' = [sm EXCEPT !.call = attempt_step_schedule_fails(sm.call)]
    /\ UNCHANGED <<schedule_file, scheduled_meets, job_queue, last>>
    /\ SendUnchanged

DeliverNext == SendNext \/ AttemptScheduleFails

DeliverSpec == SendInit /\ [][DeliverNext]_vars

DeliveredLinks(call) ==
    SelectSeq(call.posts, LAMBDA p : p.text = "link" /\ p.delivered)

\* C31: in one call of send_meet_link or send_instant_meet_link the link
\* message reaches the chat at most once, whether an attempt fails in
\* sending the message or in queueing its deletion.
C31_LinkDeliveredAtMostOnce ==
    sm.call.pc # "idle" => Len(DeliveredLinks(sm.call)) <= 1

----------------------------------------------------------------------------
(* What a reload leaves of the other jobs *)

\* The jobs that are not weekly triggers and not the reload job: pending
\* deletions of sent messages and reminders.
OtherJobs(q) ==
    RestrictBag(q, {j \in DOMAIN q : j.callback \in {"delete_message", "send_reminder"}})

\* C27: a reload leaves the pending message deletions and the reminder jobs
\* in the queue: what was armed before it is armed after it.
C27_ReloadKeepsOtherJobs ==
    [][SendReload => OtherJobs(job_queue') = OtherJobs(job_queue)]_vars

----------------------------------------------------------------------------
(* Saving and loading, with the conversions spelled out                    *)
(*                                                                         *)
(* Here an entry is the dict the handlers build (a function from its keys  *)
(* to integers, with the key thread_id only when a thread was set), the    *)
(* file is the JSON text's structure (string keys, numbers in decimal      *)
(* digits), and the chat identifiers include a negative one, as groups     *)
(* have.                                                                   *)

RECURSIVE str_of_nat(_)
str_of_nat(n) ==
    IF n < 10 THEN <<Digits[n + 1]>>
    ELSE str_of_nat(n \div 10) \o <<Digits[(n % 10) + 1]>>

\* A text without the sign.
str_of_int_unsigned(n) == IF n < 0 THEN str_of_nat(0 - n) ELSE str_of_nat(n)

\* The decimal text json.dump writes for an int (as a number and as a key).
str_of_int(n) == IF n < 0 THEN <<"-">> \o str_of_nat(0 - n) ELSE str_of_nat(n)

\* The int json.load reads from a number.
json_number(t) ==
    IF Head(t) = "-" THEN 0 - digits_value(Tail(t)) ELSE digits_value(t)

\* The dict of an entry: schedule_entry = {'day': ..., 'hours': ...,
\* 'minutes': ...}, and schedule_entry['thread_id'] = thread_id if the
\* thread is not None.
dict_of(e) ==
    IF e.thread_id = None
    THEN [day |-> e.day, hours |-> e.hours, minutes |-> e.minutes]
    ELSE [day |-> e.day, hours |-> e.hours, minutes |-> e.minutes,
          thread_id |-> CHOOSE x \in e.thread_id : TRUE]

\* json.dump(scheduled_meets, f)
json_dump(m) ==
    [exists |-> TRUE,
     data |-> [k \in {str_of_int(c) : c \in DOMAIN m} |->
                 LET c == CHOOSE x \in DOMAIN m : str_of_int(x) = k
                 IN  [i \in 1..Len(m[c]) |->
                        [fld \in DOMAIN m[c][i] |-> str_of_int(m[c][i][fld])]]]]

\* load_schedules: json.load, then {int(k): v for k, v in data.items()}.
json_load(f) ==
    IF f.exists
    THEN [c \in {CHOOSE v \in int_of(k) : TRUE : k \in DOMAIN f.data} |->
            LET k == CHOOSE x \in DOMAIN f.data : int_of(x) = Some(c)
            IN  [i \in 1..Len(f.data[k]) |->
                    [fld \in DOMAIN f.data[k][i] |->
                        json_number(f.data[k][i][fld])]]]
    ELSE EmptyStore

RoundChats == {555, 777, 0 - 1002}

RoundLists == { [i \in 1..Len(a) |-> dict_of(a[i])] : a \in ListsOf(555) }

\* The stores in memory: one chat with a list, or two chats.
RoundStores ==
    { [c \in {chat_id} |-> a] : chat_id \in RoundChats, a \in RoundLists }
    \cup { [c \in {555, 0 - 1002} |->
              IF c = 555 THEN a ELSE <<dict_of(schedule_entry(6, 9, 5, Some(7)))>>] :
           a \in RoundLists }

\* The file {"555": [{"day": 2, "hours": 12, "minutes": 46}]}.
ExampleFile ==
    [exists |-> TRUE,
     data |-> [k \in {<<"5", "5", "5">>} |->
                 <<[day |-> <<"2">>, hours |-> <<"1", "2">>,
                    minutes |-> <<"4", "6">>]>>]]

RoundInit ==
    /\ schedule_file \in {NoFile, ExampleFile}
    /\ scheduled_meets \in RoundStores
    /\ user_states = [k \in StateKeys |-> "none"]
    /\ job_queue = EmptyBag
    /\ pc = "running"
    /\ last = Op("init", "")
    /\ rc = calc_idle
    /\ th = conc_idle
    /\ schedule_lock = None
    /\ sm = send_idle
    /\ RemindersIdle

SaveSchedules ==
    /\ schedule_file' = json_dump(scheduled_meets)
    /\ last' = Op("save_schedules", "")
    /\ UNCHANGED <<scheduled_meets, user_states, job_queue, pc>>
    /\ OtherSpecsIdle

LoadSchedules ==
    /\ scheduled_meets' = json_load(schedule_file)
    /\ last' = Op("load_schedules", "")
    /\ UNCHANGED <<schedule_file, user_states, job_queue, pc>>
    /\ OtherSpecsIdle

RoundNext == SaveSchedules \/ LoadSchedules

RoundSpec == RoundInit /\ [][RoundNext]_vars

\* C23: a load that follows a save gives the store that was saved: the
\* same chats as integers, each list in the same order, each entry with the
\* same keys and values (thread_id only where it was set); and the file
\* {"555": [{"day": 2, "hours": 12, "minutes": 46}]} loads as one entry for
\* chat 555.
C23_SaveThenLoadIsTheStore ==
    [][/\ (last.op = "save_schedules" /\ last'.op = "load_schedules") =>
              scheduled_meets' = scheduled_meets
       /\ (schedule_file = ExampleFile /\ last'.op = "load_schedules") =>
              scheduled_meets' =
                 [c \in {555} |-> <<[day |-> 2, hours |-> 12, minutes |-> 46]>>]]_vars

\* The group -1002 holds an entry without a thread and then one of topic 7;
\* the store was saved under the key "-1002" and loaded back.
C23_Witness ==
    /\ last.op = "load_schedules"
    /\ DOMAIN schedule_file.data = {<<"-", "1", "0", "0", "2">>}
    /\ scheduled_meets =
          [c \in {0 - 1002} |->
              <<[day |-> 2, hours |-> 12, minutes |-> 46],
                [day |-> 6, hours |-> 9, minutes |-> 5, thread_id |-> 7]>>]

----------------------------------------------------------------------------
(* The link producer of google_meet.py and of create_accessible_meet.py *)

\* What a call finds: the token file, credentials.json, the OAuth flow, the
\* write of the new token, the discovery build, the events().insert()
\* request, the event it returns and the write of last_meet_link.txt.
\* insert = "error" is an exception that is not an HttpError: the host is
\* unreachable or the connection times out.
Tokens == {"absent", "unreadable", "valid", "expired", "expired_refresh_raises",
           "invalid_without_refresh_token"}

EntryPoint(type, uri) == [entryPointType |-> type, uri |-> uri]

\* event['conferenceData']['entryPoints'], or None when the event has no
\* conferenceData or no entryPoints.
EntryPoints ==
    {None,
     Some(<<>>),
     Some(<<EntryPoint("phone", "tel:1")>>),
     Some(<<EntryPoint("video", "https://meet.google.com/a")>>),
     Some(<<EntryPoint("phone", "tel:1"),
            EntryPoint("video", "https://meet.google.com/a")>>),
     Some(<<EntryPoint("video", "https://meet.google.com/a"),
            EntryPoint("video", "https://meet.google.com/b")>>)}

Environments ==
    [token : Tokens, credentials_file : BOOLEAN, flow : {"ok", "raise"},
     token_write : {"ok", "raise"}, build : {"ok", "raise"},
     insert : {"ok", "HttpError", "error"}, entry_points : EntryPoints,
     link_write : {"ok", "raise"}]

\* How a call ends: a returned value (None or a link), an exception that
\* leaves the function, or sys.exit.
Returned(v) == [kind |-> "returned", value |-> v]

Raised(e) == [kind |-> "raised", value |-> e]

Exited(code) == [kind |-> "exited", value |-> code]

\* get_credentials: the credentials are None, "valid" or "invalid".  exits
\* tells the variant of create_accessible_meet.py, which calls sys.exit(1)
\* where google_meet.py returns None.
get_credentials_of(env, exits) ==
    LET loaded == CASE env.token \in {"absent", "unreadable"} -> None
                    [] env.token = "valid" -> Some("valid")
                    [] env.token \in {"expired", "expired_refresh_raises"} ->
                           Some("expired")
                    [] OTHER -> Some("invalid")
        refreshed == IF loaded = Some("expired")
                     THEN IF env.token = "expired" THEN Some("valid") ELSE None
                     ELSE loaded
    IN  IF loaded = Some("valid")
        THEN Returned(loaded)
        ELSE IF refreshed # None
             THEN Returned(refreshed)
             ELSE IF ~env.credentials_file \/ env.flow = "raise"
                  THEN IF exits THEN Exited(1) ELSE Returned(None)
                  ELSE IF env.token_write = "raise"
                       THEN Raised("OSError")
                       ELSE Returned(Some("valid"))

get_credentials(env) == get_credentials_of(env, FALSE)

\* The uri of the first entry point of type 'video', or None.
RECURSIVE first_video(_)
first_video(eps) ==
    IF eps = <<>>
    THEN None
    ELSE IF Head(eps).entryPointType = "video"
         THEN Some(Head(eps).uri)
         ELSE first_video(Tail(eps))

\* build() given no credentials looks for the host's default credentials
\* and raises when there are none; the request of credentials that are not
\* valid and cannot be refreshed raises RefreshError, which is not an
\* HttpError.
create_fully_accessible_meet_of(env, exits) ==
    LET creds == get_credentials_of(env, exits)
        meet_link == IF env.entry_points = None
                     THEN None
                     ELSE first_video(CHOOSE eps \in env.entry_points : TRUE)
    IN  IF creds.kind # "returned"
        THEN creds
        ELSE IF creds.value = None \/ env.build = "raise"
             THEN IF exits THEN Exited(1) ELSE Returned(None)
             ELSE IF creds.value = Some("invalid")
                  THEN Raised("RefreshError")
                  ELSE IF env.insert = "HttpError"
                       THEN Returned(None)
                       ELSE IF env.insert = "error"
                            THEN Raised("ServerNotFoundError")
                            ELSE IF meet_link = None
                                 THEN Returned(None)
                                 ELSE IF env.link_write = "raise"
                                      THEN Raised("OSError")
                                      ELSE Returned(meet_link)

create_fully_accessible_meet(env) == create_fully_accessible_meet_of(env, FALSE)

google_meet(env) ==
    LET meet_link == create_fully_accessible_meet(env)
    IN  IF meet_link.kind = "returned" /\ meet_link.value # None
        THEN meet_link
        ELSE IF meet_link.kind = "returned" THEN Returned(None) ELSE meet_link

\* create_accessible_meet.py's function of the same name.
create_accessible_meet(env) == create_fully_accessible_meet_of(env, TRUE)

MeetInit ==
    /\ schedule_file = NoFile
    /\ scheduled_meets = EmptyStore
    /\ user_states = [k \in StateKeys |-> "none"]
    /\ job_queue = EmptyBag
    /\ pc = "running"
    /\ last = Op("main", "")
    /\ rc = calc_idle
    /\ th = conc_idle
    /\ schedule_lock = None
    /\ sm = send_idle
    /\ gm \in [pc : {"called"}, env : Environments]
    /\ reminder_file = NoReminderFile
    /\ reminders = <<>>
    /\ temp_reminders = <<>>
    /\ rl = <<>>

MeetUnchanged ==
    UNCHANGED <<schedule_file, scheduled_meets, user_states, job_queue, pc, rc,
                th, schedule_lock, sm, reminder_file, reminders,
                temp_reminders, rl>>

GoogleMeet ==
    /\ gm.pc = "called"
    /\ gm' = [pc |-> "done", env |-> gm.env, result |-> google_meet(gm.env)]
    /\ last' = Op("google_meet", "")
    /\ MeetUnchanged

CreateAccessibleMeet ==
    /\ gm.pc = "called"
    /\ gm' = [pc |-> "done", env |-> gm.env,
              result |-> create_accessible_meet(gm.env)]
    /\ last' = Op("create_accessible_meet", "")
    /\ MeetUnchanged

MeetNext == GoogleMeet \/ CreateAccessibleMeet

MeetSpec == MeetInit /\ [][MeetNext]_vars

\* The call has no usable credentials: no token that is valid or can be
\* refreshed, and no new one from credentials.json.
CredentialsMissing(env) ==
    /\ env.token \in {"absent", "unreadable", "expired_refresh_raises",
                      "invalid_without_refresh_token"}
    /\ (env.token = "invalid_without_refresh_token"
           \/ ~env.credentials_file \/ env.flow = "raise")

\* C24: a call of the link producer ends by returning, never by an
\* exception or by ending the process; it returns None when credentials are
\* missing, the service cannot be built, the request fails or the event has
\* no video entry point, and otherwise the uri of the event's first video
\* entry point.
C24_LinkProducerReturnsLinkOrNone ==
    gm.pc = "done" =>
        /\ gm.result.kind = "returned"
        /\ (\/ CredentialsMissing(gm.env)
            \/ gm.env.build = "raise"
            \/ gm.env.insert # "ok"
            \/ gm.env.entry_points = None
            \/ first_video(CHOOSE eps \in gm.env.entry_points : TRUE) = None)
              => gm.result.value = None
        /\ gm.result.value # None =>
              gm.result.value = first_video(CHOOSE eps \in gm.env.entry_points : TRUE)

----------------------------------------------------------------------------
(* Reminders: the conversations that create and delete them, the jobs that *)
(* send them, and the process start.                                        *)
(*                                                                         *)
(* The chat is the supergroup; two of its users talk to the bot, outside   *)
(* the topics.  A reminder's id stands for its uuid4 string: the ids are   *)
(* issued in order.                                                        *)
(* The date and time of a reminder is one accepted value: its job may run  *)
(* at any later step.                                                      *)

MaxReminders == 2

ReminderChat == 555

ReminderUsers == {1001, 1002}

ReminderKeys == {ReminderChat} \X ReminderUsers

Frequencies == {"once", "daily", "weekly", "monthly", "yearly"}

Reminder(id, frequency, thread_id) ==
    [id |-> id, datetime |-> "2030-01-01T10:00:00+03:00", frequency |-> frequency,
     text |-> "text", thread_id |-> thread_id]

load_reminders(f) == IF f.exists THEN f.data ELSE <<>>

save_reminders(m) == [exists |-> TRUE, data |-> m]

ReminderJob(chat_id, reminder) ==
    [callback |-> "send_reminder",
     context |-> Some([chat_id |-> chat_id, reminder |-> reminder])]

\* schedule_reminder: run_once for 'once', a repeating job for the other
\* frequencies, no job for a frequency it does not know.
schedule_reminder(q, chat_id, reminder) ==
    IF reminder.frequency \in Frequencies
    THEN q (+) SetToBag({ReminderJob(chat_id, reminder)})
    ELSE q

RemindersOf(m, chat_id) == IF chat_id \in DOMAIN m THEN m[chat_id] ELSE <<>>

\* The numbers under which the reminders of a list are shown to a message
\* of thread_id: the positions in the chat's list, not renumbered.
valid_indices(items, thread_id) ==
    {idx \in 1..Len(items) : thread_id = None \/ items[idx].thread_id = thread_id}

\* A filter that takes nothing out.
without_id_kept(items, id) == items

\* The list without the reminders of an id.
without_id(items, id) == SelectSeq(items, LAMBDA r : r.id # id)

\* reminders[chat_id].pop(reminder_num - 1)
pop(items, n) == [i \in 1..(Len(items) - 1) |-> IF i < n THEN items[i] ELSE items[i + 1]]

ReminderIds(f) ==
    {RemindersOf(load_reminders(f), ReminderChat)[i].id :
        i \in 1..Len(RemindersOf(load_reminders(f), ReminderChat))}

\* The files the bot may find when it starts: none, or one that holds a
\* daily reminder created by an earlier run.
InitReminderFiles ==
    {NoReminderFile,
     save_reminders([c \in {ReminderChat} |-> <<Reminder(0, "daily", None)>>])}

no_log == [issued |-> 0, deleted |-> {}, shown |-> <<>>]

ReminderInit ==
    /\ schedule_file = NoFile
    /\ scheduled_meets = EmptyStore
    /\ user_states = [k \in ReminderKeys |-> "none"]
    /\ job_queue = EmptyBag
    /\ pc = "boot"
    /\ last = Op("init", "")
    /\ rc = calc_idle
    /\ th = conc_idle
    /\ schedule_lock = None
    /\ sm = send_idle
    /\ gm = meet_idle
    /\ reminder_file \in InitReminderFiles
    /\ reminders = <<>>
    /\ temp_reminders = <<>>
    /\ rl = no_log

ReminderUnchanged ==
    UNCHANGED <<schedule_file, scheduled_meets, pc, rc, th, schedule_lock, sm, gm>>

\* A write that stores a fresh record in place of the one it is given.
temp_set_fresh(t, key, v) ==
    [k \in DOMAIN t \cup {key} |-> IF k = key THEN [thread_id |-> None] ELSE t[k]]

\* temp_reminders[state_key] = v
temp_set(t, key, v) == [k \in DOMAIN t \cup {key} |-> IF k = key THEN v ELSE t[k]]

temp_del(t, key) == [k \in DOMAIN t \ {key} |-> t[k]]

\* add_reminder_command, reached by the menu text of /reminder.
add_reminder_command(user_id, status, thread_id) ==
    LET key == <<ReminderChat, user_id>>
    IN  /\ pc = "running"
        /\ IF status \notin {"creator", "administrator"}
           THEN /\ user_states' = [user_states EXCEPT ![key] = "none"]
                /\ temp_reminders' = temp_del(temp_reminders, key)
                /\ last' = Op("add_reminder_command", "admins_only")
           ELSE /\ user_states' = [user_states EXCEPT ![key] = "ADD_REMINDER_TIME"]
                /\ temp_reminders' =
                      temp_set(temp_reminders, key,
                               [chat_id |-> ReminderChat, thread_id |-> thread_id])
                /\ last' = Op("add_reminder_command", "ask_time")
        /\ rl' = [rl EXCEPT !.shown = temp_del(rl.shown, key)]
        /\ UNCHANGED <<job_queue, reminder_file, reminders>>
        /\ ReminderUnchanged

\* A text in state ADD_REMINDER_TIME: a date and time in the future, one in
\* the past, or a text strptime rejects.
process_reminder_time(user_id, text) ==
    LET key == <<ReminderChat, user_id>>
    IN  /\ pc = "running"
        /\ user_states[key] = "ADD_REMINDER_TIME"
        /\ IF text = "future"
           THEN /\ temp_reminders' =
                      temp_set(temp_reminders, key,
                               [chat_id |-> temp_reminders[key].chat_id,
                                thread_id |-> temp_reminders[key].thread_id,
                                datetime |-> "2030-01-01T10:00:00+03:00"])
                /\ user_states' = [user_states EXCEPT ![key] = "ADD_REMINDER_FREQUENCY"]
                /\ last' = Op("process_reminder_time", "ask_frequency")
           ELSE /\ UNCHANGED <<temp_reminders, user_states>>
                /\ last' = Op("process_reminder_time",
                              IF text = "past" THEN "not_future" ELSE "format")
        /\ UNCHANGED <<job_queue, reminder_file, reminders, rl>>
        /\ ReminderUnchanged

\* A test of the frequency text that lets every text through.
known_frequency_any(text) == TRUE

\* text in frequency_map, the texts named by the frequency they map to.
known_frequency(text) == text \in Frequencies

\* A text in state ADD_REMINDER_FREQUENCY: one of the keyboard's texts, as
\* the frequency it maps to, or another text.
process_reminder_frequency(user_id, text) ==
    LET key == <<ReminderChat, user_id>>
    IN  /\ pc = "running"
        /\ user_states[key] = "ADD_REMINDER_FREQUENCY"
        /\ IF known_frequency(text)
           THEN /\ temp_reminders' =
                      temp_set(temp_reminders, key,
                               [chat_id |-> temp_reminders[key].chat_id,
                                thread_id |-> temp_reminders[key].thread_id,
                                datetime |-> temp_reminders[key].datetime,
                                frequency |-> text])
                /\ user_states' = [user_states EXCEPT ![key] = "ADD_REMINDER_TEXT"]
                /\ last' = Op("process_reminder_frequency", "ask_text")
           ELSE /\ UNCHANGED <<temp_reminders, user_states>>
                /\ last' = Op("process_reminder_frequency", "choose")
        /\ UNCHANGED <<job_queue, reminder_file, reminders, rl>>
        /\ ReminderUnchanged

\* A text in state ADD_REMINDER_TEXT: empty after strip(), or the text of
\* the reminder, which is stored, saved and scheduled.
process_reminder_text(user_id, empty) ==
    LET key == <<ReminderChat, user_id>>
        loaded == load_reminders(reminder_file)
        reminder == Reminder(rl.issued + 1, temp_reminders[key].frequency,
                             temp_reminders[key].thread_id)
        m == store_set(loaded, ReminderChat,
                       Append(RemindersOf(loaded, ReminderChat), reminder))
    IN  /\ pc = "running"
        /\ user_states[key] = "ADD_REMINDER_TEXT"
        /\ IF empty
           THEN /\ UNCHANGED <<temp_reminders, user_states, reminders, reminder_file,
                               job_queue, rl>>
                /\ last' = Op("process_reminder_text", "empty")
           ELSE /\ rl.issued < MaxReminders
                /\ reminders' = m
                /\ reminder_file' = save_reminders(m)
                /\ job_queue' = schedule_reminder(job_queue, ReminderChat, reminder)
                /\ user_states' = [user_states EXCEPT ![key] = "none"]
                /\ temp_reminders' = temp_del(temp_reminders, key)
                /\ rl' = [rl EXCEPT !.issued = rl.issued + 1]
                /\ last' = Op("process_reminder_text", "created")
        /\ ReminderUnchanged

\* /reminders
list_reminders(thread_id) ==
    LET loaded == load_reminders(reminder_file)
        items == RemindersOf(loaded, ReminderChat)
    IN  /\ pc = "running"
        /\ reminders' = loaded
        /\ last' = Op("list_reminders",
                      IF items = <<>> THEN "none"
                      ELSE IF valid_indices(items, thread_id) = {} THEN "none_in_thread"
                      ELSE "list")
        /\ UNCHANGED <<user_states, temp_reminders, job_queue, reminder_file, rl>>
        /\ ReminderUnchanged

\* /delete_reminder: the numbered list is sent and the numbers it shows are
\* kept in temp_reminders.
delete_reminder_command(user_id, status, thread_id) ==
    LET key == <<ReminderChat, user_id>>
        loaded == load_reminders(reminder_file)
        items == RemindersOf(loaded, ReminderChat)
        shown == valid_indices(items, thread_id)
    IN  /\ pc = "running"
        /\ IF status \notin {"creator", "administrator"}
           THEN /\ UNCHANGED <<user_states, temp_reminders, reminders, rl>>
                /\ last' = Op("delete_reminder_command", "admins_only")
           ELSE /\ reminders' = loaded
                /\ IF items = <<>>
                   THEN /\ UNCHANGED <<user_states, temp_reminders, rl>>
                        /\ last' = Op("delete_reminder_command", "none")
                   ELSE IF shown = {}
                        THEN /\ user_states' = [user_states EXCEPT ![key] = "none"]
                             /\ rl' = [rl EXCEPT !.shown = temp_del(rl.shown, key)]
                             /\ UNCHANGED temp_reminders
                             /\ last' = Op("delete_reminder_command", "none_in_thread")
                        ELSE /\ user_states' =
                                   [user_states EXCEPT ![key] = "DELETE_REMINDER"]
                             /\ temp_reminders' =
                                   temp_set(temp_reminders, key,
                                            [valid_indices |-> shown,
                                             thread_id |-> thread_id])
                             /\ rl' = [rl EXCEPT !.shown =
                                          temp_set(rl.shown, key,
                                                   [idx \in shown |-> items[idx]])]
                             /\ last' = Op("delete_reminder_command", "choose")
        /\ UNCHANGED <<job_queue, reminder_file>>
        /\ ReminderUnchanged

\* A text in state DELETE_REMINDER: a number (0 stands for a text that is
\* not one).  The job of the reminder is left in the queue.
process_reminder_delete(user_id, reminder_num) ==
    LET key == <<ReminderChat, user_id>>
        loaded == load_reminders(reminder_file)
        items == RemindersOf(loaded, ReminderChat)
    IN  /\ pc = "running"
        /\ user_states[key] = "DELETE_REMINDER"
        /\ IF reminder_num = 0
           THEN /\ UNCHANGED <<user_states, temp_reminders, reminders, reminder_file, rl>>
                /\ last' = [op |-> "process_reminder_delete", reply |-> "number",
                            user_id |-> user_id, num |-> reminder_num]
           ELSE IF key \notin DOMAIN temp_reminders
                   \/ reminder_num \notin temp_reminders[key].valid_indices
                THEN /\ UNCHANGED <<user_states, temp_reminders, reminders,
                                    reminder_file, rl>>
                     /\ last' = [op |-> "process_reminder_delete", reply |-> "invalid",
                                 user_id |-> user_id, num |-> reminder_num]
                ELSE /\ IF ReminderChat \in DOMAIN loaded /\ reminder_num <= Len(items)
                        THEN LET m == store_set(loaded, ReminderChat,
                                                pop(items, reminder_num))
                             IN  /\ reminders' = m
                                 /\ reminder_file' = save_reminders(m)
                                 /\ rl' = [rl EXCEPT
                                              !.deleted = rl.deleted
                                                          \cup {items[reminder_num].id},
                                              !.shown = temp_del(rl.shown, key)]
                                 /\ last' = [op |-> "process_reminder_delete",
                                             reply |-> "deleted", user_id |-> user_id,
                                             num |-> reminder_num]
                        ELSE /\ reminders' = loaded
                             /\ rl' = [rl EXCEPT !.shown = temp_del(rl.shown, key)]
                             /\ UNCHANGED reminder_file
                             /\ last' = [op |-> "process_reminder_delete",
                                         reply |-> "error", user_id |-> user_id,
                                         num |-> reminder_num]
                     /\ user_states' = [user_states EXCEPT ![key] = "none"]
                     /\ temp_reminders' = temp_del(temp_reminders, key)
        /\ UNCHANGED job_queue
        /\ ReminderUnchanged

\* send_reminder, the callback of a reminder's job: the message is sent or
\* send_message raises; a one-time reminder that was sent is taken out of
\* the file.  A run_once job leaves the queue when it has run.
send_reminder(job, delivered) ==
    LET reminder == (CHOOSE c \in job.context : TRUE).reminder
        chat_id == (CHOOSE c \in job.context : TRUE).chat_id
        loaded == load_reminders(reminder_file)
    IN  /\ pc = "running"
        /\ job_queue' = IF reminder.frequency = "once"
                        THEN job_queue (-) SetToBag({job})
                        ELSE job_queue
        /\ IF delivered /\ reminder.frequency = "once"
           THEN /\ reminders' = IF chat_id \in DOMAIN loaded
                                THEN store_set(loaded, chat_id,
                                               without_id(loaded[chat_id], reminder.id))
                                ELSE loaded
                /\ reminder_file' = IF chat_id \in DOMAIN loaded
                                    THEN save_reminders(reminders')
                                    ELSE reminder_file
           ELSE UNCHANGED <<reminders, reminder_file>>
        /\ last' = [op |-> "send_reminder",
                    reply |-> IF delivered THEN "sent" ELSE "error",
                    id |-> reminder.id]
        /\ UNCHANGED <<user_states, temp_reminders, rl>>
        /\ ReminderUnchanged

ReminderStatuses == {"administrator", "member"}

ReminderThreads == {None}

ReminderFrequencyTexts == {"once", "daily", "other"}

\* The sender of a menu text has no stored state: no CommandHandler is
\* registered for /reminder, /reminders and /deletereminder, the message
\* handler leaves commands out, and handle_text passes every text of a
\* sender with a stored state to the handler of that state.
NoState(user_id) == user_states[<<ReminderChat, user_id>>] = "none"

AddReminderCommand ==
    \E user_id \in ReminderUsers : \E status \in ReminderStatuses :
    \E thread_id \in ReminderThreads :
        NoState(user_id) /\ add_reminder_command(user_id, status, thread_id)

ProcessReminderTime ==
    \E user_id \in ReminderUsers : \E text \in {"future", "past", "other"} :
        process_reminder_time(user_id, text)

ProcessReminderFrequency ==
    \E user_id \in ReminderUsers : \E text \in ReminderFrequencyTexts :
        process_reminder_frequency(user_id, text)

ProcessReminderText ==
    \E user_id \in ReminderUsers : \E empty \in BOOLEAN :
        process_reminder_text(user_id, empty)

ListReminders ==
    \E user_id \in ReminderUsers : \E thread_id \in ReminderThreads :
        NoState(user_id) /\ list_reminders(thread_id)

DeleteReminderCommand ==
    \E user_id \in ReminderUsers : \E status \in ReminderStatuses :
    \E thread_id \in ReminderThreads :
        NoState(user_id) /\ delete_reminder_command(user_id, status, thread_id)

ProcessReminderDelete ==
    \E user_id \in ReminderUsers : \E reminder_num \in 0..(MaxReminders + 2) :
        process_reminder_delete(user_id, reminder_num)

SendReminder ==
    \E job \in {j \in DOMAIN job_queue : j.callback = "send_reminder"} :
    \E delivered \in BOOLEAN :
        send_reminder(job, delivered)

ReminderNext ==
    \/ Main
    \/ ReloadSchedulesJob
    \/ AddReminderCommand
    \/ ProcessReminderTime
    \/ ProcessReminderFrequency
    \/ ProcessReminderText
    \/ ListReminders
    \/ DeleteReminderCommand
    \/ ProcessReminderDelete
    \/ SendReminder

ReminderSpec == ReminderInit /\ [][ReminderNext]_vars

\* C28: a reminder that was deleted through the delete conversation is not
\* sent to the chat afterwards.
C28_DeletedReminderIsNotSent ==
    [][(last'.op = "send_reminder" /\ last'.reply = "sent") =>
          last'.id \notin rl.deleted]_vars

\* C29: when main() has run, every reminder of the file has its job in the
\* queue.
C29_StartArmsEveryReminder ==
    last.op = "main" =>
        \A i \in 1..Len(RemindersOf(load_reminders(reminder_file), ReminderChat)) :
            ReminderJob(ReminderChat,
                        RemindersOf(load_reminders(reminder_file), ReminderChat)[i])
               \in DOMAIN job_queue

\* C30: the reminder that process_reminder_delete takes out of the file is
\* the one the user was shown under the number they sent.
C30_DeletesTheReminderShown ==
    [][(last'.op = "process_reminder_delete" /\ last'.reply = "deleted") =>
          ReminderIds(reminder_file) \ ReminderIds(reminder_file') =
             {rl.shown[<<ReminderChat, last'.user_id>>][last'.num].id}]_vars

----------------------------------------------------------------------------
(* Two bot processes on one schedule file                                  *)
(*                                                                         *)
(* Each process has its own scheduled_meets, its own schedule_lock and its *)
(* own job queue; only scheduled_meets.json is shared.  Each serves one    *)
(* add.  th holds the two processes.                                       *)

Processes == {1, 2}

\* The value check_single_instance() returns.
check_single_instance == TRUE

\* A save that first merges what is on disk into the store it writes.
process_save_merged(m, f) ==
    LET on_disk == load_schedules(f)
    IN  save_schedules(
           [c \in DOMAIN m \cup DOMAIN on_disk |->
               IF c \notin DOMAIN on_disk THEN m[c]
               ELSE IF c \notin DOMAIN m THEN on_disk[c]
               ELSE m[c] \o SelectSeq(on_disk[c],
                                      LAMBDA e : \A i \in 1..Len(m[c]) : m[c][i] # e)])

\* save_schedules() of a process: open(SCHEDULE_FILE, 'w') replaces the
\* file f by the process's own store.
process_save(m, f) == save_schedules(m)

ProcessRequests == {r \in ConcRequests : r.op = "add"}

Process(req) ==
    [req |-> req, pc |-> "boot", reply |-> "", mem |-> EmptyStore, lock |-> FALSE,
     queue |-> EmptyBag, saw_other |-> FALSE, saved_first |-> FALSE]

ProcessFiles ==
    {NoFile, save_schedules([c \in {777} |-> <<schedule_entry(2, 12, 46, None)>>])}

ProcInit ==
    /\ schedule_file \in ProcessFiles
    /\ scheduled_meets = EmptyStore
    /\ user_states = [k \in StateKeys |-> "none"]
    /\ job_queue = EmptyBag
    /\ pc = "running"
    /\ last = Op("init", "")
    /\ rc = calc_idle
    /\ th \in { [p \in Processes |-> Process(r[p])] :
                  r \in {x \in [Processes -> ProcessRequests] : x[1] # x[2]} }
    /\ schedule_lock = None
    /\ sm = send_idle
    /\ RemindersIdle

ProcUnchanged ==
    /\ UNCHANGED <<scheduled_meets, job_queue, schedule_lock>>
    /\ ConcUnchanged

HasSaved(p) == th[p].pc \in {"arm", "release", "done"} /\ th[p].reply # "exists"

\* main(): check_single_instance(), load_schedules(), setup_schedules().
ProcStart(p) ==
    /\ th[p].pc = "boot"
    /\ th' = IF check_single_instance
             THEN [th EXCEPT ![p].pc = "polling",
                             ![p].mem = load_schedules(schedule_file),
                             ![p].queue = setup_schedules(EmptyBag, schedule_file).queue]
             ELSE [th EXCEPT ![p].pc = "exited"]
    /\ UNCHANGED schedule_file
    /\ ProcUnchanged

\* with schedule_lock: the lock of the process itself.
ProcAcquire(p) ==
    /\ th[p].pc = "polling"
    /\ ~th[p].lock
    /\ th' = [th EXCEPT ![p].pc = "load", ![p].lock = TRUE]
    /\ UNCHANGED schedule_file
    /\ ProcUnchanged

\* load_schedules(), the duplicate check and the append.
ProcLoad(p) ==
    LET r == th[p].req
        loaded == load_schedules(schedule_file)
        m0 == IF r.chat_id \in DOMAIN loaded THEN loaded
              ELSE store_set(loaded, r.chat_id, <<>>)
    IN  /\ th[p].pc = "load"
        /\ th' = IF schedule_exists(m0[r.chat_id], r.day, r.hours, r.minutes)
                 THEN [th EXCEPT ![p].pc = "release", ![p].reply = "exists",
                                 ![p].mem = m0,
                                 ![p].saw_other = \E q \in Processes \ {p} : HasSaved(q)]
                 ELSE [th EXCEPT ![p].pc = "save",
                                 ![p].mem = store_set(m0, r.chat_id,
                                                Append(m0[r.chat_id],
                                                       schedule_entry(r.day, r.hours,
                                                                      r.minutes,
                                                                      r.thread_id))),
                                 ![p].saw_other = \E q \in Processes \ {p} : HasSaved(q)]
        /\ UNCHANGED schedule_file
        /\ ProcUnchanged

\* save_schedules()
ProcSave(p) ==
    /\ th[p].pc = "save"
    /\ schedule_file' = process_save(th[p].mem, schedule_file)
    /\ th' = [th EXCEPT ![p].pc = "arm",
                        ![p].saved_first = \A q \in Processes \ {p} : ~HasSaved(q)]
    /\ ProcUnchanged

\* create_job_for_schedule on the process's own queue.
ProcArm(p) ==
    LET r == th[p].req
    IN  /\ th[p].pc = "arm"
        /\ th' = [th EXCEPT ![p].pc = "release", ![p].reply = "added",
                            ![p].queue = create_job_for_schedule(@, r.chat_id, r.day,
                                                                 r.hours, r.minutes,
                                                                 r.thread_id)]
        /\ UNCHANGED schedule_file
        /\ ProcUnchanged

ProcRelease(p) ==
    /\ th[p].pc = "release"
    /\ th' = [th EXCEPT ![p].pc = "done", ![p].lock = FALSE]
    /\ UNCHANGED schedule_file
    /\ ProcUnchanged

ProcNext ==
    \E p \in Processes :
        \/ ProcStart(p)
        \/ ProcAcquire(p)
        \/ ProcLoad(p)
        \/ ProcSave(p)
        \/ ProcArm(p)
        \/ ProcRelease(p)

ProcSpec == ProcInit /\ [][ProcNext]_vars

ProcEntry(p) ==
    schedule_entry(th[p].req.day, th[p].req.hours, th[p].req.minutes,
                   th[p].req.thread_id)

\* C32: no process is refused at start; the two may be inside their locked
\* blocks at once or not; and when both have finished, an entry that a
\* process added is in the file exactly when the other process did not
\* save, or saved before it, or loaded the file after it had saved.  An
\* added entry is lost otherwise.
C32_ProcessesAreNotCoordinated ==
    /\ \A p \in DOMAIN th : th[p].pc # "exited"
    /\ (DOMAIN th = Processes /\ "saved_first" \in DOMAIN th[1] /\ AllDone) =>
          \A p \in Processes : \A q \in Processes \ {p} :
              th[p].reply = "added" =>
                 (Holds(schedule_file, th[p].req.chat_id, ProcEntry(p))
                    <=> \/ th[q].reply # "added"
                        \/ ~th[p].saved_first
                        \/ th[q].saw_other)

\* No file; process 1 adds for chat 555 and process 2 for chat 777, both
\* answer that the entry was added, and the file holds only the entry of
\* process 2.
C32_Witness ==
    /\ DOMAIN th = Processes /\ "saved_first" \in DOMAIN th[1] /\ AllDone
    /\ th[1].reply = "added" /\ th[2].reply = "added"
    /\ th[1].req.chat_id = 555 /\ th[2].req.chat_id = 777
    /\ ~Holds(schedule_file, 555, ProcEntry(1))
    /\ Holds(schedule_file, 777, ProcEntry(2))

----------------------------------------------------------------------------
(* What an add handler stores and arms *)

in_range(e) ==
    /\ e.day \in 0..6
    /\ e.hours \in 0..23
    /\ e.minutes \in 0..59

\* The step appended entry e to the list of the chat and armed its job.
StoresAndArms(chat_id, e) ==
    /\ FileList(schedule_file', chat_id) = Append(FileList(schedule_file, chat_id), e)
    /\ job_queue' = job_queue (+) SetToBag({EntryJob(chat_id, e)})

Stored(chat_id) ==
    LET items == FileList(schedule_file', chat_id) IN items[Len(items)]

\* C33: every entry an add handler writes to the file has its day in 0..6,
\* its hours in 0..23 and its minutes in 0..59, and the weekly job armed by
\* the same step carries in its context the day, hours, minutes and thread
\* of that entry.
C33_StoredEntryInRangeAndArmedAlike ==
    [][(last'.op \in AddOps /\ schedule_file' # schedule_file) =>
         \E chat_id \in ChatIds :
            /\ FileList(schedule_file', chat_id) # <<>>
            /\ in_range(Stored(chat_id))
            /\ StoresAndArms(chat_id, Stored(chat_id))]_vars

C33_Witness ==
    /\ last.op = "process_schedule_add"
    /\ last.reply = "added"
    /\ \E chat_id \in ChatIds :
        LET e == schedule_entry(2, 12, 46, None)
        IN  Holds(schedule_file, chat_id, e) /\ Armed(job_queue, chat_id, e) > 0

----------------------------------------------------------------------------
(* Text messages and the state of the dialogue *)

\* handle_text on a text that is neither a command nor a menu text: passed
\* on by the stored state of the sender; without one it is answered in a
\* private chat only.
handle_text(chat_id, user_id, thread_id, text) ==
    LET state == user_states[<<chat_id, user_id>>]
    IN  IF state = "ADD_SCHEDULE"
        THEN process_schedule_add(chat_id, user_id, thread_id, text)
        ELSE IF state = "DELETE_SCHEDULE"
        THEN process_schedule_delete(chat_id, user_id, text)
        ELSE /\ pc = "running"
             /\ last' = Op("handle_text", IF is_group(chat_id) THEN "" ELSE "use_menu")
             /\ UNCHANGED <<schedule_file, scheduled_meets, user_states, job_queue, pc>>
             /\ OtherSpecsIdle

HandleText ==
    \E chat_id \in ChatIds, user_id \in UserIds :
    \E r \in TextRequests(chat_id) :
        handle_text(chat_id, user_id, r.thread_id, r.text)

\* handle_text on the menu texts of /add and /delete.
handle_menu_text(chat_id, user_id, status, menu) ==
    /\ user_states[<<chat_id, user_id>>] = "none"
    /\ IF menu = "add" THEN add_schedule_command(chat_id, user_id, status)
       ELSE delete_schedule_command(chat_id, user_id, status)

HandleMenuText ==
    \E chat_id \in ConversationChats, user_id \in UserIds :
    \E status \in MemberStatuses(chat_id), menu \in {"add", "delete"} :
        handle_menu_text(chat_id, user_id, status, menu)

DialogueNext ==
    \/ Main
    \/ ReloadSchedulesJob
    \/ AddScheduleCommand
    \/ DeleteScheduleCommand
    \/ HandleText
    \/ HandleMenuText

DialogueSpec == Init /\ [][DialogueNext]_vars

\* The replies with which a dialogue step ends the dialogue.
EndReplies == {"added", "exists", "deleted", "not_found", "error"}

C34_TextOps == {"process_schedule_add", "process_schedule_delete", "handle_text"}

\* C34: a step of the add or delete dialogue that ends with success,
\* duplicate, not found or an unexpected error removes the state of its
\* (chat, user) key; a step that ends with a validation message leaves every
\* state, the file and the queue as they were; a text from a sender without a
\* stored state changes neither the file, nor the queue, nor a state.
C34_StateClearedUnlessValidation ==
    [][last'.op \in C34_TextOps =>
        \A chat_id \in ChatIds, user_id \in UserIds :
        \A r \in TextRequests(chat_id) :
            handle_text(chat_id, user_id, r.thread_id, r.text) =>
                LET key == <<chat_id, user_id>>
                IN  IF user_states[key] = "none"
                    THEN UNCHANGED <<schedule_file, job_queue, user_states>>
                    ELSE IF last'.reply \in ValidationReplies
                    THEN UNCHANGED <<schedule_file, job_queue, user_states>>
                    ELSE /\ last'.reply \in EndReplies
                         /\ user_states' = [user_states EXCEPT ![key] = "none"]]_vars

C34_Witness ==
    /\ last.op = "process_schedule_delete"
    /\ last.reply = "not_found"
    /\ user_states[<<555, 1001>>] = "none"

----------------------------------------------------------------------------
(* The reminder dialogues of one user, with the schedule commands          *)
(*                                                                         *)
(* /add and /delete have command handlers and are served in every state;   *)
(* the menu texts of the reminders are served by handle_text to a sender   *)
(* without a stored state, and every other text goes to the handler of the *)
(* sender's state.                                                         *)

DialogueUsers == {1001}

MenuAddReminder ==
    \E user_id \in DialogueUsers : \E status \in ReminderStatuses :
    \E thread_id \in ReminderThreads :
        NoState(user_id) /\ add_reminder_command(user_id, status, thread_id)

MenuListReminders ==
    \E user_id \in DialogueUsers : \E thread_id \in ReminderThreads :
        NoState(user_id) /\ list_reminders(thread_id)

MenuDeleteReminder ==
    \E user_id \in DialogueUsers : \E status \in ReminderStatuses :
    \E thread_id \in ReminderThreads :
        NoState(user_id) /\ delete_reminder_command(user_id, status, thread_id)

TextInReminderState ==
    \E user_id \in DialogueUsers :
        \/ \E text \in {"future", "past", "other"} : process_reminder_time(user_id, text)
        \/ \E text \in ReminderFrequencyTexts : process_reminder_frequency(user_id, text)
        \/ \E empty \in BOOLEAN : process_reminder_text(user_id, empty)
        \/ \E reminder_num \in 0..(MaxReminders + 2) :
              process_reminder_delete(user_id, reminder_num)

\* The texts in state ADD_SCHEDULE are the ones that add no entry: the
\* dialogue goes on after a validation message and ends after the error
\* message.
RejectedScheduleAdd ==
    \E user_id \in DialogueUsers : \E text \in InvalidTexts(ReminderChat) :
        process_schedule_add(ReminderChat, user_id, None, text)

ReminderDialogueNext ==
    \/ Main
    \/ AddScheduleCommand
    \/ DeleteScheduleCommand
    \/ RejectedScheduleAdd
    \/ ProcessScheduleDelete
    \/ MenuAddReminder
    \/ MenuListReminders
    \/ MenuDeleteReminder
    \/ TextInReminderState
    \/ SendReminder

ReminderDialogueSpec == ReminderInit /\ [][ReminderDialogueNext]_vars

Written == ReminderIds(reminder_file') \ ReminderIds(reminder_file)

NothingWritten ==
    UNCHANGED <<user_states, temp_reminders, reminder_file, reminders, job_queue>>

\* A key has come to one of the two later states of the dialogue.
Entered ==
    \E key \in DOMAIN user_states :
        /\ user_states'[key] \in {"ADD_REMINDER_FREQUENCY", "ADD_REMINDER_TEXT"}
        /\ user_states'[key] # user_states[key]

C35_Ops ==
    {"process_reminder_time", "process_reminder_frequency", "process_reminder_text"}

\* C35: a step writes a reminder to the file only as process_reminder_text
\* on a text that is not empty, of a user in state ADD_REMINDER_TEXT; a
\* user enters ADD_REMINDER_TEXT only from ADD_REMINDER_FREQUENCY on one of
\* the five frequencies, and ADD_REMINDER_FREQUENCY only from
\* ADD_REMINDER_TIME on a date and time in the future; a date and time that
\* is not in the future or does not parse, a text that is no frequency and
\* an empty text leave the state, the record, the file and the queue as
\* they were.
C35_ReminderWrittenAfterThreeValidInputs ==
    [][(Written # {} \/ last'.op \in C35_Ops \/ Entered) =>
        /\ Written # {} =>
              \E user_id \in ReminderUsers :
                  /\ user_states[<<ReminderChat, user_id>>] = "ADD_REMINDER_TEXT"
                  /\ process_reminder_text(user_id, FALSE)
        /\ \A user_id \in ReminderUsers :
              LET key == <<ReminderChat, user_id>>
                  entered(state) == user_states'[key] = state /\ user_states[key] # state
              IN  /\ entered("ADD_REMINDER_TEXT") =>
                        /\ user_states[key] = "ADD_REMINDER_FREQUENCY"
                        /\ \E text \in Frequencies :
                              process_reminder_frequency(user_id, text)
                  /\ entered("ADD_REMINDER_FREQUENCY") =>
                        /\ user_states[key] = "ADD_REMINDER_TIME"
                        /\ process_reminder_time(user_id, "future")
                  /\ \A text \in {"past", "other"} :
                        process_reminder_time(user_id, text) => NothingWritten
                  /\ \A text \in ReminderFrequencyTexts \ Frequencies :
                        process_reminder_frequency(user_id, text) => NothingWritten
                  /\ process_reminder_text(user_id, TRUE) => NothingWritten]_vars

C35_Witness ==
    /\ last.op = "process_reminder_text"
    /\ last.reply = "created"
    /\ rl.issued \in ReminderIds(reminder_file)
    /\ user_states[<<ReminderChat, 1001>>] = "none"

HasField(key, field) ==
    key \in DOMAIN temp_reminders /\ field \in DOMAIN temp_reminders[key]

\* C36: a key in state ADD_REMINDER_FREQUENCY or ADD_REMINDER_TEXT has a
\* record in temp_reminders with 'datetime', in state ADD_REMINDER_TEXT
\* with 'frequency' too, and a key in state DELETE_REMINDER has a record
\* with 'valid_indices'.
C36_StateHasItsRecord ==
    \A key \in DOMAIN user_states :
        /\ user_states[key] \in {"ADD_REMINDER_FREQUENCY", "ADD_REMINDER_TEXT"} =>
              HasField(key, "datetime")
        /\ user_states[key] = "ADD_REMINDER_TEXT" => HasField(key, "frequency")
        /\ user_states[key] = "DELETE_REMINDER" => HasField(key, "valid_indices")

\* The user is asked for the text of a second reminder, and for the number
\* of the reminder to delete when both are stored.
C36_Witness ==
    \/ /\ user_states[<<ReminderChat, 1001>>] = "ADD_REMINDER_TEXT"
       /\ HasField(<<ReminderChat, 1001>>, "frequency")
       /\ rl.issued = 1
    \/ /\ user_states[<<ReminderChat, 1001>>] = "DELETE_REMINDER"
       /\ HasField(<<ReminderChat, 1001>>, "valid_indices")
       /\ rl.issued = MaxReminders

FileReminders(f) == RemindersOf(load_reminders(f), ReminderChat)

\* C37: send_reminder on a reminder of frequency 'once' whose message was
\* sent takes the reminders of its id, and no other, out of the file; on a
\* reminder of another frequency, and on a message that was not sent, it
\* leaves the file as it was.
C37_OnlySentOnceReminderIsRemoved ==
    [][last'.op = "send_reminder" =>
        \A job \in {j \in DOMAIN job_queue : j.callback = "send_reminder"} :
        \A delivered \in BOOLEAN :
            send_reminder(job, delivered) =>
                LET reminder == (CHOOSE c \in job.context : TRUE).reminder
                    before == FileReminders(reminder_file)
                    after == FileReminders(reminder_file')
                IN  IF delivered /\ reminder.frequency = "once"
                    THEN /\ Len(after) =
                              Cardinality({i \in 1..Len(before) :
                                              before[i].id # reminder.id})
                         /\ \A i \in 1..Len(before) :
                               before[i].id # reminder.id =>
                                  \E j \in 1..Len(after) : after[j] = before[i]
                         /\ \A j \in 1..Len(after) : after[j].id # reminder.id
                    ELSE reminder_file' = reminder_file]_vars

C37_Witness ==
    /\ last.op = "send_reminder"
    /\ last.reply = "sent"
    /\ last.id \notin rl.deleted
    /\ last.id \notin ReminderIds(reminder_file)
    /\ ReminderIds(reminder_file) # {}

----------------------------------------------------------------------------
(* get_credentials on its own *)

\* What a call of get_credentials does on its way: whether creds.refresh is
\* called, whether the authorisation flow is run, and whether the token of
\* the flow is written to the token file.
get_credentials_steps(env) ==
    LET refresh == env.token \in {"expired", "expired_refresh_raises"}
        no_creds == env.token \in {"absent", "unreadable", "expired_refresh_raises"}
        flow == no_creds /\ env.credentials_file
    IN  [refresh |-> refresh,
         flow |-> flow,
         saved |-> flow /\ env.flow = "ok" /\ env.token_write = "ok"]

GetCredentials ==
    /\ gm.pc = "called"
    /\ gm' = [pc |-> "credentials", env |-> gm.env,
              result |-> get_credentials_of(gm.env, FALSE),
              steps |-> get_credentials_steps(gm.env)]
    /\ last' = Op("get_credentials", "google_meet")
    /\ MeetUnchanged

GetCredentialsOfScript ==
    /\ gm.pc = "called"
    /\ gm' = [pc |-> "credentials", env |-> gm.env,
              result |-> get_credentials_of(gm.env, TRUE),
              steps |-> get_credentials_steps(gm.env)]
    /\ last' = Op("get_credentials", "create_accessible_meet")
    /\ MeetUnchanged

CredentialsNext == GetCredentials \/ GetCredentialsOfScript

CredentialsSpec == MeetInit /\ [][CredentialsNext]_vars

\* C38: get_credentials returns valid credentials or None; a valid cached
\* token is returned without a refresh and without a flow, an expired one
\* with a refresh token is refreshed, and in every other case (no cached
\* token, a refresh that failed, cached credentials that are not valid and
\* cannot be refreshed) the authorisation flow is run and, when it gives
\* credentials, they are written to the token file and returned.
C38_CredentialsValidOrNone ==
    gm.pc = "credentials" =>
        /\ gm.result.kind = "returned"
        /\ gm.result.value \in {None, Some("valid")}
        /\ gm.env.token = "valid" =>
              /\ gm.result.value = Some("valid")
              /\ ~gm.steps.refresh /\ ~gm.steps.flow
        /\ gm.env.token \in {"expired", "expired_refresh_raises"} => gm.steps.refresh
        /\ gm.env.token = "expired" => gm.result.value = Some("valid") /\ ~gm.steps.flow
        /\ gm.env.token \in {"absent", "unreadable", "expired_refresh_raises",
                             "invalid_without_refresh_token"} =>
              \/ gm.result.value = None /\ ~gm.steps.saved
              \/ gm.result.value = Some("valid") /\ gm.steps.flow /\ gm.steps.saved

====
